---- MODULE Spec2Model ----
(***************************************************************************)
(* Chain-state engine of the coin node (chain.py, transaction.py,          *)
(* block.py, rules.py, crypto.py) and its miner threads (miner.py,         *)
(* node.py).                                                               *)
(*                                                                         *)
(* Python objects are modelled with their identity: every BlockChainNode   *)
(* that insert_block creates is a cell of `objs`, a TxnOutput's `spent`    *)
(* flag lives in the cell of the block whose Transaction owns the output   *)
(* list, and a LinkedTransaction is the pair <<node, position>> of the     *)
(* Transaction whose output list it shares.                                *)
(***************************************************************************)
EXTENDS Integers, Sequences, FiniteSets, TLC

\* CHAIN (node.py 31): the shared BlockChain object, and what the last
\* insert_block call on it returned
VARIABLES objs, levels, transactions, max_height, head_block, err, result

\* node.py 21-32: the queues and the flag shared by the threads; `miners` is
\* the local state of every run_miner thread; `deposited` lists the
\* transactions that were put into TXN_QUEUE so far
VARIABLES TXN_QUEUE, BLOCK_QUEUE, CHAIN_MODIFIED, miners, deposited

\* node.py 22: OUT_QUEUE, the messages to send to the peers; `wire` is what
\* send_json has written to the socket of a peer; `net` says whether the
\* run_network thread runs or an exception has ended it; `files` is the
\* storage directory, height -> lines of the file; `maint` is the block for
\* which the maintainer has yet to raise CHAIN_MODIFIED; `wallet` is the
\* Wallet object of run_wallet and what its last command printed
VARIABLES OUT_QUEUE, wire, net, files, maint, wallet

\* an object that is written as JSON and read back: the object, its JSON
\* and the object made from the JSON, and how far this has got
VARIABLES codec

chainVars == <<objs, levels, transactions, max_height, head_block, err, result>>
planeVars == <<OUT_QUEUE, wire, net, wallet, codec>>
nodeVars == <<TXN_QUEUE, BLOCK_QUEUE, CHAIN_MODIFIED, miners, deposited,
              OUT_QUEUE, wire, net, files, maint, wallet, codec>>
vars == <<objs, levels, transactions, max_height, head_block, err, result,
          TXN_QUEUE, BLOCK_QUEUE, CHAIN_MODIFIED, miners, deposited,
          OUT_QUEUE, wire, net, files, maint, wallet, codec>>

(***************************************************************************)
(* rules.py                                                                *)
(***************************************************************************)
MINING_REWARD == 50
MIN_ZEROS == 20
\* rules.py has 20; scaled down so that a pending set reaches it
MAX_TXN_COUNT == 3
MAX_BLOCKS_BEHIND == 10

(***************************************************************************)
(* Bounds of the model                                                     *)
(***************************************************************************)
\* number of BlockChainNode objects kept by the chain (genesis included)
MaxNodes == 3
\* the same, when only blocks that are valid on their branch are delivered
MaxValidNodes == 5
\* the same, on the long chain that reaches the reorg horizon
MaxDeepNodes == 13
\* blocks of the long chain that are not on the head's branch
MaxForks == 1
\* BlockChainNode objects of CHAIN, and blocks waiting in BLOCK_QUEUE, while
\* the miner threads run
MaxNodeObjs == 3
\* transactions that are sent to the node, with one miner thread and with
\* several
MaxDeposits == 3
MaxNodeDeposits == 1
\* the number of send commands of the wallet
MaxSends == 2
\* the values next_nonce draws from: 0..NonceSpace, where NonceSpace stands
\* for 1 << 256 (miner.py 42)
NonceSpace == 3

(***************************************************************************)
(* Byte strings are sequences of numbers.  json.dumps(...).encode() is     *)
(* modelled as a serialisation that, like JSON, can be decoded in one way  *)
(* only: numbers carry a sign tag, lists their length, an unset value its  *)
(* own tag.                                                                *)
(***************************************************************************)
IntBytes(i) == IF i < 0 THEN <<2, -i>> ELSE <<1, i>>

RECURSIVE Concat(_, _)
Concat(seqs, i) == IF i > Len(seqs) THEN <<>> ELSE seqs[i] \o Concat(seqs, i + 1)

\* json.dumps of a list whose elements are already serialised
ListBytes(elems) == <<Len(elems)>> \o Concat(elems, 1)

(***************************************************************************)
(* crypto.py                                                               *)
(***************************************************************************)
Keys == {"A", "B"}

\* Python None where a public key is expected
NoKey == "none"

\* the raw bytes of a public key
KeyBytes(pub_key) == IF pub_key = "A" THEN <<1>> ELSE IF pub_key = "B" THEN <<2>> ELSE <<0>>

\* hashlib.sha256(data).digest(), scaled down: two 15-bit polynomial hashes
\* v and w of the data give the digest <<0, 0, 8 * b, v, w>>, where b is two
\* bits mixed from v, so that a digest has 24, 20 or 19 leading zero bits.
\* PolyV(data, lo, hi) is the hash of data[lo..hi] in base 31 modulo 32749,
\* PolyW the one in base 37 modulo 32719; both are computed by halves (short pieces
\* by Horner's rule), with PowV[n] = 31^n and PowW[n] = 37^n.
RECURSIVE PowMod(_, _, _)
PowMod(b, n, m) ==
    IF n = 0 THEN 1
    ELSE LET h == PowMod(b, n \div 2, m)
         IN  (((h * h) % m) * (IF n % 2 = 1 THEN b ELSE 1)) % m

\* the longest byte string that is hashed is shorter than 2 * MaxHalf
MaxHalf == 256
PowV == [n \in 0..MaxHalf |-> PowMod(31, n, 32749)]
PowW == [n \in 0..MaxHalf |-> PowMod(37, n, 32719)]

RECURSIVE PolyV(_, _, _)
PolyV(data, lo, hi) ==
    IF hi - lo < 4
    THEN CASE hi = lo -> (data[lo] + 7) % 32749
           [] hi = lo + 1 -> ((data[lo] + 7) * 31 + data[hi] + 7) % 32749
           [] hi = lo + 2 ->
                ((((data[lo] + 7) * 31 + data[lo + 1] + 7) % 32749) * 31 + data[hi] + 7) % 32749
           [] OTHER ->
                ((((((data[lo] + 7) * 31 + data[lo + 1] + 7) % 32749) * 31
                    + data[lo + 2] + 7) % 32749) * 31 + data[hi] + 7) % 32749
    ELSE LET mid == (lo + hi) \div 2
         IN  (PolyV(data, lo, mid) * PowV[hi - mid] + PolyV(data, mid + 1, hi)) % 32749

RECURSIVE PolyW(_, _, _)
PolyW(data, lo, hi) ==
    IF hi - lo < 4
    THEN CASE hi = lo -> (data[lo] + 7) % 32719
           [] hi = lo + 1 -> ((data[lo] + 7) * 37 + data[hi] + 7) % 32719
           [] hi = lo + 2 ->
                ((((data[lo] + 7) * 37 + data[lo + 1] + 7) % 32719) * 37 + data[hi] + 7) % 32719
           [] OTHER ->
                ((((((data[lo] + 7) * 37 + data[lo + 1] + 7) % 32719) * 37
                    + data[lo + 2] + 7) % 32719) * 37 + data[hi] + 7) % 32719
    ELSE LET mid == (lo + hi) \div 2
         IN  (PolyW(data, lo, mid) * PowW[hi - mid] + PolyW(data, mid + 1, hi)) % 32719

Digest(v, w) == <<0, 0, 8 * ((((v * v + v) % 32749) \div 16) % 4), v, w>>

sha256(data) ==
    IF data = <<>> THEN Digest(1, 1)
    ELSE Digest((Len(data) + PolyV(data, 1, Len(data))) % 32749,
                (Len(data) + PolyW(data, 1, Len(data))) % 32719)

double_sha256(data) == sha256(sha256(data))

\* crypto.hash_data, called by Block.compute_hash
hash_data(data) == double_sha256(data)

\* ECDSA signature of `data` under the key pair named private_key; k is the
\* per-signature random value, which verification does not look at.
sign(private_key, data, k) == [k |-> k, signer |-> private_key, payload |-> data]

\* an unset signature (TxnOutput.signature = None)
NoSignature == [k |-> 0, signer |-> NoKey, payload |-> <<>>]

\* a signature that is the empty byte string (bytes.fromhex(""))
EmptySignature == [k |-> 0, signer |-> NoKey, payload |-> <<0>>]

\* signature.hex(), "" when unset
SignatureBytes(signature) ==
    IF signature \in {NoSignature, EmptySignature} THEN <<0>>
    ELSE <<1, signature.k>> \o KeyBytes(signature.signer) \o signature.payload

\* crypto.verify: never raises, a malformed key or signature gives False
verify(public_key, signature, data) ==
    /\ public_key \in Keys
    /\ signature.signer = public_key
    /\ signature.payload = data

(***************************************************************************)
(* utils.py, rules.py                                                      *)
(***************************************************************************)
Pow2(n) == CASE n = 0 -> 1 [] n = 1 -> 2 [] n = 2 -> 4 [] n = 3 -> 8
             [] n = 4 -> 16 [] n = 5 -> 32 [] n = 6 -> 64 [] OTHER -> 128

bytes_to_bits(byte_array) ==
    [j \in 1..(8 * Len(byte_array)) |->
        (byte_array[((j - 1) \div 8) + 1] \div Pow2(7 - ((j - 1) % 8))) % 2]

valid_block_hash(h) ==
    LET bits == bytes_to_bits(h)
    IN  \A j \in 1..MIN_ZEROS : j <= Len(bits) => bits[j] = 0

(***************************************************************************)
(* transaction.py                                                          *)
(***************************************************************************)
TxnInput(txn_id, index) == [txn_id |-> txn_id, index |-> index]

TxnOutput(pub_key, amount, signature) ==
    [pub_key |-> pub_key, amount |-> amount, signature |-> signature]

\* an unset txn_id (Transaction.txn_id = None); <<>> is the empty byte
\* string
NoTxnId == <<-1>>

\* TxnInput.to_json, serialised
TxnInput_to_bytes(txn_in) == txn_in.txn_id \o IntBytes(txn_in.index)

\* TxnOutput.to_json, serialised: the spent flag is not part of it
TxnOutput_to_bytes(txn_out) ==
    KeyBytes(txn_out.pub_key) \o IntBytes(txn_out.amount) \o SignatureBytes(txn_out.signature)

InputsBytes(inputs) == ListBytes([j \in 1..Len(inputs) |-> TxnInput_to_bytes(inputs[j])])
OutputsBytes(outputs) == ListBytes([j \in 1..Len(outputs) |-> TxnOutput_to_bytes(outputs[j])])

\* Transaction.to_json, serialised
Transaction_to_bytes(txn) ==
    (IF txn.txn_id = NoTxnId THEN <<0>> ELSE <<Len(txn.txn_id)>> \o txn.txn_id)
    \o InputsBytes(txn.inputs) \o OutputsBytes(txn.outputs)

\* Transaction.compute_txn_id
compute_txn_id(txn) == double_sha256(InputsBytes(txn.inputs) \o OutputsBytes(txn.outputs))

\* the payload signed for one output: double_sha256(txn_in_bytes + pub_key)
SignedPayload(inputs, pub_key) ==
    double_sha256(Concat([j \in 1..Len(inputs) |-> TxnInput_to_bytes(inputs[j])], 1)
                  \o KeyBytes(pub_key))

\* Transaction.sign: signs every output, then sets txn_id
Transaction_sign(txn, sender_private_key, k) ==
    LET signed == [j \in 1..Len(txn.outputs) |->
                     [txn.outputs[j] EXCEPT !.signature =
                        sign(sender_private_key,
                             SignedPayload(txn.inputs, txn.outputs[j].pub_key), k)]]
        t == [txn EXCEPT !.outputs = signed]
    IN  [t EXCEPT !.txn_id = compute_txn_id(t)]

\* Transaction.verify_signature
verify_signature(txn, sender_pubkey) ==
    \A j \in 1..Len(txn.outputs) :
        verify(sender_pubkey, txn.outputs[j].signature,
               SignedPayload(txn.inputs, txn.outputs[j].pub_key))

(***************************************************************************)
(* block.py                                                                *)
(***************************************************************************)
Block(prev_hash, height, nonce, txns, block_hash) ==
    [prev_hash |-> prev_hash, height |-> height, nonce |-> nonce,
     transactions |-> txns, block_hash |-> block_hash]

\* Block.compute_hash
compute_hash(block, nonce) ==
    hash_data(block.prev_hash \o <<block.height>> \o <<nonce>>
              \o ListBytes([j \in 1..Len(block.transactions) |->
                              Transaction_to_bytes(block.transactions[j])]))

(***************************************************************************)
(* JSON: a dict is a function on the names of the fields it has, a string  *)
(* of hex digits the sequence of its digits, None the value PyNone         *)
(***************************************************************************)
PyNone == [none |-> TRUE]

\* bytes.hex: two digits for every byte, the high one first
hex(b) ==
    [i \in 1..(2 * Len(b)) |->
        IF i % 2 = 1 THEN b[(i + 1) \div 2] \div 16 ELSE b[i \div 2] % 16]

\* bytes.fromhex of a string of digit pairs
fromhex(h) == [i \in 1..(Len(h) \div 2) |-> 16 * h[2 * i - 1] + h[2 * i]]

\* the bytes of a public key and of a signature, and the values read back
\* from such bytes
bytes_key(b) == IF b = <<1>> THEN "A" ELSE IF b = <<2>> THEN "B" ELSE NoKey

signature_bytes(signature) ==
    IF signature = EmptySignature THEN <<>>
    ELSE <<signature.k>> \o KeyBytes(signature.signer) \o signature.payload

bytes_signature(b) ==
    IF b = <<>> THEN EmptySignature
    ELSE [k |-> b[1], signer |-> bytes_key(<<b[2]>>), payload |-> SubSeq(b, 3, Len(b))]

\* json_data.get(attr) is None for one of the attrs
missing_attr(json_data, attrs) == ~(attrs \subseteq DOMAIN json_data)

\* all(items) over the results of from_json
all(items) == \A j \in 1..Len(items) : items[j] /= PyNone

\* transaction.py 32-36
TxnInput_to_json(txn_in) == [txn_id |-> hex(txn_in.txn_id), index |-> txn_in.index]

\* transaction.py 26-30
TxnInput_from_json(json_data) ==
    IF missing_attr(json_data, {"txn_id", "index"}) THEN PyNone
    ELSE TxnInput(fromhex(json_data.txn_id), json_data.index)

\* transaction.py 65-70: an unset signature is written as ""
TxnOutput_to_json(txn_out) ==
    [pub_key |-> hex(KeyBytes(txn_out.pub_key)),
     amount |-> txn_out.amount,
     signature |-> IF txn_out.signature = NoSignature THEN <<>>
                   ELSE hex(signature_bytes(txn_out.signature))]

\* transaction.py 57-63
TxnOutput_from_json(json_data) ==
    IF missing_attr(json_data, {"pub_key", "amount", "signature"}) THEN PyNone
    ELSE TxnOutput(bytes_key(fromhex(json_data.pub_key)), json_data.amount,
                   bytes_signature(fromhex(json_data.signature)))

\* transaction.py 94-99: an unset txn_id is written as ""
Transaction_to_json(txn) ==
    [txn_id |-> IF txn.txn_id = NoTxnId THEN <<>> ELSE hex(txn.txn_id),
     inputs |-> [j \in 1..Len(txn.inputs) |-> TxnInput_to_json(txn.inputs[j])],
     outputs |-> [j \in 1..Len(txn.outputs) |-> TxnOutput_to_json(txn.outputs[j])]]

\* transaction.py 80-92
Transaction_from_json(json_data) ==
    IF missing_attr(json_data, {"txn_id", "inputs", "outputs"}) THEN PyNone
    ELSE LET txn_id == fromhex(json_data.txn_id)
             inputs == [j \in 1..Len(json_data.inputs) |->
                           TxnInput_from_json(json_data.inputs[j])]
             outputs == [j \in 1..Len(json_data.outputs) |->
                            TxnOutput_from_json(json_data.outputs[j])]
         IN  IF ~all(inputs) \/ ~all(outputs) THEN PyNone
             ELSE [txn_id |-> txn_id, inputs |-> inputs, outputs |-> outputs]

\* transaction.py 101-105
Transaction_to_message(txn) == [type |-> "transaction", data |-> Transaction_to_json(txn)]

\* block.py 42-49
Block_to_json(block) ==
    [hash |-> hex(block.block_hash),
     prev_hash |-> hex(block.prev_hash),
     height |-> block.height,
     nonce |-> block.nonce,
     transactions |-> [j \in 1..Len(block.transactions) |->
                          Transaction_to_json(block.transactions[j])]]

\* Block.to_message, which find_nonce calls (node.py 167)
Block_to_message(block) == [type |-> "block", data |-> Block_to_json(block)]

\* block.py 22-40
Block_from_json(json_data) ==
    IF missing_attr(json_data, {"hash", "prev_hash", "height", "nonce", "transactions"})
    THEN PyNone
    ELSE LET txns == [j \in 1..Len(json_data.transactions) |->
                         Transaction_from_json(json_data.transactions[j])]
         IN  IF ~all(txns) THEN PyNone
             ELSE Block(fromhex(json_data.prev_hash), json_data.height,
                        json_data.nonce, txns, fromhex(json_data.hash))

(***************************************************************************)
(* chain.py: the chain object as a value                                   *)
(*   objs          BlockChainNode objects by identity: prev (0 is None),   *)
(*                 data (the Block) and the spent flag of every output     *)
(*   levels        level -> set of nodes (a dict keyed by block_hash)      *)
(*   transactions  the dict txn_id -> LinkedTransaction, in insertion      *)
(*                 order; obj is the Transaction whose outputs it shares   *)
(*   err           the exception that escaped, "ok" if none                *)
(***************************************************************************)
ChainOf(o, l, t, m, h, e) ==
    [objs |-> o, levels |-> l, transactions |-> t, max_height |-> m,
     head_block |-> h, err |-> e]

\* BlockChain.__init__ before the genesis block is loaded
EmptyChain == ChainOf(<<>>, <<>>, <<>>, 0, 0, "ok")

Raise(cs, exc) == [cs EXCEPT !.err = exc]

\* BlockChainNode(prev, block); the outputs of a fresh Block are unspent
BlockChainNode(prev, block) ==
    [prev |-> prev, data |-> block,
     spent |-> [p \in 1..Len(block.transactions) |->
                  [j \in 1..Len(block.transactions[p].outputs) |-> FALSE]]]

\* the Transaction object at position ref[2] of the block of node ref[1]
TxnOf(cs, ref) == cs.objs[ref[1]].data.transactions[ref[2]]

\* position of txn_id in the transactions dict, 0 when it is not a key
FindTxn(cs, txn_id) ==
    LET hits == {j \in 1..Len(cs.transactions) : cs.transactions[j].txn_id = txn_id}
    IN  IF hits = {} THEN 0 ELSE CHOOSE j \in hits : TRUE

\* Python list indexing: 1-based position of list[index], 0 for IndexError
PyIndex(len, index) ==
    IF index >= 0 /\ index < len THEN index + 1
    ELSE IF index < 0 /\ -index <= len THEN len + index + 1
    ELSE 0

SetSpent(cs, ref, j, v) == [cs EXCEPT !.objs[ref[1]].spent[ref[2]][j] = v]

RemoveAt(s, j) == SubSeq(s, 1, j - 1) \o SubSeq(s, j + 1, Len(s))

\* the input loop of apply_transaction (chain.py 162-171)
RECURSIVE apply_inputs(_, _, _, _)
apply_inputs(cs, inputs, i, linked) ==
    IF cs.err /= "ok" \/ i > Len(inputs) THEN [cs |-> cs, linked |-> linked]
    ELSE LET txn_in == inputs[i]
             j == FindTxn(cs, txn_in.txn_id)
         IN  IF j = 0 THEN [cs |-> Raise(cs, "AssertionError"), linked |-> linked]
             ELSE LET lt == cs.transactions[j].obj
                      o == PyIndex(Len(TxnOf(cs, lt).outputs), txn_in.index)
                  IN  IF o = 0 THEN [cs |-> Raise(cs, "IndexError"), linked |-> linked]
                      ELSE apply_inputs(SetSpent(cs, lt, o, TRUE), inputs, i + 1,
                               Append(linked, [txn |-> lt, txn_id |-> txn_in.txn_id,
                                               index |-> txn_in.index]))

\* BlockChain.apply_transaction
apply_transaction(cs, ref) ==
    IF cs.err /= "ok" THEN cs
    ELSE LET txn == TxnOf(cs, ref)
             r == apply_inputs(cs, txn.inputs, 1, <<>>)
         IN  IF r.cs.err /= "ok" THEN r.cs
             ELSE LET c1 == [r.cs EXCEPT !.objs[ref[1]].spent[ref[2]] =
                                [j \in 1..Len(txn.outputs) |-> FALSE]]
                      entry == [txn_id |-> txn.txn_id, obj |-> ref, inputs |-> r.linked]
                      j == FindTxn(c1, txn.txn_id)
                  IN  IF j = 0
                      THEN [c1 EXCEPT !.transactions = Append(@, entry)]
                      ELSE [c1 EXCEPT !.transactions[j] = entry]

\* the unspend loop of revert_transaction (chain.py 193-195)
RECURSIVE unspend_inputs(_, _, _)
unspend_inputs(cs, linked, i) ==
    IF cs.err /= "ok" \/ i > Len(linked) THEN cs
    ELSE LET o == PyIndex(Len(TxnOf(cs, linked[i].txn).outputs), linked[i].index)
         IN  IF o = 0 THEN Raise(cs, "IndexError")
             ELSE unspend_inputs(SetSpent(cs, linked[i].txn, o, FALSE), linked, i + 1)

\* a revert that forgets to unspend the consumed coins
revert_transaction_keeps_spent(cs, ref) ==
    IF cs.err /= "ok" THEN cs
    ELSE LET j == FindTxn(cs, TxnOf(cs, ref).txn_id)
         IN  IF j = 0 THEN Raise(cs, "KeyError")
             ELSE [cs EXCEPT !.transactions = RemoveAt(@, j)]

\* BlockChain.revert_transaction
revert_transaction(cs, ref) ==
    IF cs.err /= "ok" THEN cs
    ELSE LET j == FindTxn(cs, TxnOf(cs, ref).txn_id)
         IN  IF j = 0 THEN Raise(cs, "KeyError")
             ELSE unspend_inputs([cs EXCEPT !.transactions = RemoveAt(@, j)],
                                 cs.transactions[j].inputs, 1)

\* BlockChain.apply_block: transactions p..n of node n, in order
RECURSIVE apply_block_from(_, _, _)
apply_block_from(cs, n, p) ==
    IF cs.err /= "ok" \/ p > Len(cs.objs[n].data.transactions) THEN cs
    ELSE apply_block_from(apply_transaction(cs, <<n, p>>), n, p + 1)

apply_block(cs, n) == apply_block_from(cs, n, 1)

\* reverts transactions p, p-1, .., 1 of node n
RECURSIVE revert_down_from(_, _, _)
revert_down_from(cs, n, p) ==
    IF cs.err /= "ok" \/ p < 1 THEN cs
    ELSE revert_down_from(revert_transaction(cs, <<n, p>>), n, p - 1)

\* BlockChain.revert_block
revert_block(cs, n) == revert_down_from(cs, n, Len(cs.objs[n].data.transactions))

(***************************************************************************)
(* chain.py: verification                                                  *)
(***************************************************************************)
\* chain.py 280-283: the shape of a coinbase
coinbase_shape(txn, is_coinbase) ==
    is_coinbase => (Len(txn.inputs) = 0 /\ Len(txn.outputs) = 1)

\* a check that lets coins of any owner through
same_sender_any(sender_pubkey, coin_pub_key) == TRUE

\* chain.py 299-303: every consumed coin belongs to the sender
same_sender(sender_pubkey, coin_pub_key) ==
    sender_pubkey = NoKey \/ sender_pubkey = coin_pub_key

\* chain.py 319-321
amounts_balance(is_coinbase, in_tot, out_tot) ==
    is_coinbase \/ in_tot = out_tot

\* the input loop of verify_transaction (chain.py 286-309)
RECURSIVE verify_inputs(_, _, _, _, _)
verify_inputs(cs, inputs, i, sender_pubkey, in_tot) ==
    IF i > Len(inputs) THEN [ok |-> TRUE, sender |-> sender_pubkey, tot |-> in_tot]
    ELSE LET txn_in == inputs[i]
             j == FindTxn(cs, txn_in.txn_id)
             bad == [ok |-> FALSE, sender |-> sender_pubkey, tot |-> in_tot]
         IN  IF j = 0 THEN bad
             ELSE LET prev == cs.transactions[j].obj
                      prev_txn == TxnOf(cs, prev)
                  IN  IF txn_in.index < 0 \/ txn_in.index >= Len(prev_txn.outputs) THEN bad
                      ELSE LET prev_coin == prev_txn.outputs[txn_in.index + 1]
                           IN  IF ~same_sender(sender_pubkey, prev_coin.pub_key) THEN bad
                               ELSE IF cs.objs[prev[1]].spent[prev[2]][txn_in.index + 1] THEN bad
                               ELSE verify_inputs(cs, inputs, i + 1,
                                        IF sender_pubkey = NoKey THEN prev_coin.pub_key
                                        ELSE sender_pubkey,
                                        in_tot + prev_coin.amount)

\* the output loop of verify_transaction (chain.py 311-317)
RECURSIVE sum_outputs(_, _)
sum_outputs(outputs, i) ==
    IF i > Len(outputs) THEN 0 ELSE outputs[i].amount + sum_outputs(outputs, i + 1)

\* BlockChain.verify_transaction
verify_transaction(cs, txn, is_coinbase) ==
    /\ FindTxn(cs, txn.txn_id) = 0
    /\ txn.txn_id = compute_txn_id(txn)
    /\ coinbase_shape(txn, is_coinbase)
    /\ LET r == verify_inputs(cs, txn.inputs, 1,
                    IF is_coinbase THEN txn.outputs[1].pub_key ELSE NoKey, 0)
       IN  /\ r.ok
           /\ \A j \in 1..Len(txn.outputs) : txn.outputs[j].amount >= 0
           /\ amounts_balance(is_coinbase, r.tot, sum_outputs(txn.outputs, 1))
           /\ verify_signature(txn, r.sender)

\* the transaction loop of verify_block (chain.py 246-257): verifies and
\* temporarily applies transactions p.. of node n; `applied` counts them
RECURSIVE verify_txns(_, _, _)
verify_txns(cs, n, p) ==
    IF cs.err /= "ok" \/ p > Len(cs.objs[n].data.transactions)
    THEN [cs |-> cs, invalid_txns |-> FALSE, applied |-> p - 1]
    ELSE IF ~verify_transaction(cs, TxnOf(cs, <<n, p>>), p = 1)
         THEN [cs |-> cs, invalid_txns |-> TRUE, applied |-> p - 1]
         ELSE verify_txns(apply_transaction(cs, <<n, p>>), n, p + 1)

\* the header checks without the proof of work
header_ok_no_pow(block) ==
    /\ block.height >= 0
    /\ block.block_hash = compute_hash(block, block.nonce)
    /\ Len(block.transactions) >= 1

\* chain.py 225-241: the checks on the block header
header_ok(block) ==
    /\ block.height >= 0
    /\ LET h == compute_hash(block, block.nonce)
       IN  block.block_hash = h /\ valid_block_hash(h)
    /\ Len(block.transactions) >= 1

\* a verify_block that keeps what it applied when it accepts the block
verify_block_keeps_applied(cs, n) ==
    IF ~header_ok(cs.objs[n].data) THEN [cs |-> cs, ok |-> FALSE]
    ELSE LET r == verify_txns(cs, n, 1)
         IN  [cs |-> IF r.invalid_txns THEN revert_down_from(r.cs, n, r.applied) ELSE r.cs,
              ok |-> ~r.invalid_txns]

\* BlockChain.verify_block, on the block of node n
verify_block(cs, n) ==
    IF ~header_ok(cs.objs[n].data) THEN [cs |-> cs, ok |-> FALSE]
    ELSE LET r == verify_txns(cs, n, 1)
         IN  [cs |-> revert_down_from(r.cs, n, r.applied), ok |-> ~r.invalid_txns]

(***************************************************************************)
(* chain.py: move_head                                                     *)
(***************************************************************************)
\* chain.py 204-206; evaluating src.data on None raises AttributeError
RECURSIVE move_head_revert(_, _, _)
move_head_revert(cs, src, dst) ==
    IF cs.err /= "ok" THEN [cs |-> cs, src |-> src]
    ELSE IF src = 0 \/ dst = 0 THEN [cs |-> Raise(cs, "AttributeError"), src |-> src]
    ELSE IF cs.objs[src].data.height > cs.objs[dst].data.height
         THEN move_head_revert(revert_block(cs, src), cs.objs[src].prev, dst)
         ELSE [cs |-> cs, src |-> src]

\* chain.py 207-209
RECURSIVE move_head_collect(_, _, _, _)
move_head_collect(cs, src, dst, to_apply) ==
    IF cs.err /= "ok" THEN [cs |-> cs, dst |-> dst, to_apply |-> to_apply]
    ELSE IF src = 0 \/ dst = 0
         THEN [cs |-> Raise(cs, "AttributeError"), dst |-> dst, to_apply |-> to_apply]
    ELSE IF cs.objs[dst].data.height > cs.objs[src].data.height
         THEN move_head_collect(cs, src, cs.objs[dst].prev, Append(to_apply, dst))
         ELSE [cs |-> cs, dst |-> dst, to_apply |-> to_apply]

\* chain.py 211-218
RECURSIVE move_head_meet(_, _, _, _)
move_head_meet(cs, src, dst, to_apply) ==
    IF cs.err /= "ok" THEN [cs |-> cs, to_apply |-> to_apply]
    ELSE IF src = 0 \/ dst = 0
         THEN [cs |-> Raise(cs, "AttributeError"), to_apply |-> to_apply]
    ELSE IF cs.objs[src].data.block_hash /= cs.objs[dst].data.block_hash
         THEN move_head_meet(revert_block(cs, src), cs.objs[src].prev,
                             cs.objs[dst].prev, Append(to_apply, dst))
         ELSE [cs |-> cs, to_apply |-> to_apply]

\* chain.py 221-222: for block in reversed(to_apply)
RECURSIVE apply_reversed(_, _, _)
apply_reversed(cs, to_apply, i) ==
    IF cs.err /= "ok" \/ i < 1 THEN cs
    ELSE apply_reversed(apply_block(cs, to_apply[i]), to_apply, i - 1)

\* BlockChain.move_head
move_head(cs, src, dst) ==
    LET a == move_head_revert(cs, src, dst)
        b == move_head_collect(a.cs, a.src, dst, <<>>)
        c == move_head_meet(b.cs, a.src, b.dst, b.to_apply)
    IN  apply_reversed(c.cs, c.to_apply, Len(c.to_apply))

(***************************************************************************)
(* chain.py: insert_block                                                  *)
(***************************************************************************)
\* the node stored under block_hash in levels[level] (0-based), 0 for None
LevelGet(cs, level, block_hash) ==
    LET hits == {n \in cs.levels[level + 1] : cs.objs[n].data.block_hash = block_hash}
    IN  IF hits = {} THEN 0 ELSE CHOOSE n \in hits : TRUE

\* a lookup of prev_hash that does not look at the block's height
previous_block_node_any_level(cs, block) ==
    LET hits == {n \in UNION {cs.levels[l] : l \in 1..Len(cs.levels)} :
                    cs.objs[n].data.block_hash = block.prev_hash}
    IN  IF block.height <= 0 \/ hits = {} THEN 0 ELSE CHOOSE n \in hits : TRUE

\* BlockChain.previous_block_node
previous_block_node(cs, block) ==
    IF block.height <= 0 \/ block.height > Len(cs.levels) THEN 0
    ELSE LevelGet(cs, block.height - 1, block.prev_hash)

\* chain.py 118: the reorg horizon
too_old(cs, block) == block.height <= cs.max_height - MAX_BLOCKS_BEHIND

\* chain.py 137: a block below the tip does not become the head
below_tip(cs, block) == block.height < cs.max_height

\* chain.py 123-125
RECURSIVE extend_levels(_, _)
extend_levels(lv, diff) ==
    IF diff <= 0 THEN lv ELSE extend_levels(Append(lv, {}), diff - 1)

\* chain.py 146: levels[height][block_hash] = block_node
LevelPut(cs, n) ==
    LET b == cs.objs[n].data
    IN  [cs EXCEPT !.levels[b.height + 1] =
            {m \in @ : cs.objs[m].data.block_hash /= b.block_hash} \cup {n}]

\* chain.py 145-148, on the chain c3 whose head is settled
insert_done(c3, n) ==
    IF c3.err /= "ok" THEN [cs |-> c3, result |-> "Error"]
    ELSE [cs |-> LevelPut(c3, n), result |-> "Inserted"]

\* chain.py 137-143, on the chain c2 with the block's transactions applied
insert_applied(c2, n, block) ==
    insert_done(IF below_tip(c2, block) THEN move_head(c2, n, c2.head_block)
                ELSE [c2 EXCEPT !.max_height = block.height, !.head_block = n],
                n)

\* chain.py 130-135, on the outcome v of verify_block; a rejected node is
\* garbage
insert_verified(v, n, block) ==
    IF v.cs.err /= "ok" THEN [cs |-> v.cs, result |-> "Error"]
    ELSE IF ~v.ok
         THEN [cs |-> [v.cs EXCEPT !.objs = SubSeq(@, 1, n - 1)], result |-> "Rejected"]
         ELSE insert_applied(apply_block(v.cs, n), n, block)

\* chain.py 130, on the chain c1 moved to the predecessor
insert_moved(c1, n, block) ==
    IF c1.err /= "ok" THEN [cs |-> c1, result |-> "Error"]
    ELSE insert_verified(verify_block(c1, n), n, block)

\* chain.py 127-128, on the chain c0 that holds the new node n
insert_linked(c0, prev, n, block) ==
    insert_moved(IF prev /= 0 THEN move_head(c0, c0.head_block, prev) ELSE c0, n, block)

\* BlockChain.insert_block_node; the node object is cell Len(objs)+1
insert_block_node(cs, prev, block) ==
    IF too_old(cs, block) THEN [cs |-> cs, result |-> "Rejected"]
    ELSE insert_linked([cs EXCEPT !.objs = Append(@, BlockChainNode(prev, block)),
                                  !.levels = extend_levels(@, block.height - Len(@) + 1)],
                       prev, Len(cs.objs) + 1, block)

\* BlockChain.insert_block
insert_block(cs, block) ==
    LET prev == previous_block_node(cs, block)
    IN  IF block.height > 0 /\ prev = 0
        THEN [cs |-> cs, result |-> "MissingPredecessor"]
        ELSE insert_block_node(cs, prev, block)

(***************************************************************************)
(* The blocks that are delivered to insert_block                           *)
(***************************************************************************)
\* the nonces a search tries
MaxNonce == 15

\* the first nonce from x up to MaxNonce for which the hash is, or is not,
\* valid (MaxNonce + 1 if there is none)
RECURSIVE FirstNonceFrom(_, _, _)
FirstNonceFrom(block, valid, x) ==
    IF x > MaxNonce THEN x
    ELSE IF valid_block_hash(compute_hash(block, x)) = valid THEN x
    ELSE FirstNonceFrom(block, valid, x + 1)

FirstNonce(block, valid) == FirstNonceFrom(block, valid, 0)

\* a block as a miner emits it: a nonce that gives a valid hash, and the
\* hash of its content
MinedBlock(prev_hash, height, txns) ==
    LET b == Block(prev_hash, height, 0, txns, <<>>)
        nonce == FirstNonce(b, TRUE)
    IN  [b EXCEPT !.nonce = nonce, !.block_hash = compute_hash(b, nonce)]

\* an unsigned transaction without txn_id, then signed
SignedTxn(inputs, outputs, private_key, k) ==
    Transaction_sign([txn_id |-> NoTxnId, inputs |-> inputs,
                      outputs |-> [j \in 1..Len(outputs) |->
                          TxnOutput(outputs[j][1], outputs[j][2], NoSignature)]],
                     private_key, k)

\* miner.py generate_coinbase_txn, for any amount; k is the signature's
\* random value
Coinbase(pub_key, amount, k) == SignedTxn(<<>>, <<<<pub_key, amount>>>>, pub_key, k)

\* prev_hash of the genesis block, a hash no block has, an id no
\* transaction has
ZeroHash == <<0, 0, 0, 0, 0>>
UnknownHash == <<0, 0, 0, 1, 1>>
UnknownId == <<0, 0, 0, 2, 2>>

GenesisBlock == MinedBlock(ZeroHash, 0, <<Coinbase("A", MINING_REWARD, 1)>>)
G0 == GenesisBlock.transactions[1].txn_id

\* transfers of the genesis coin and of what follows from it
T1 == SignedTxn(<<TxnInput(G0, 0)>>, <<<<"B", 40>>, <<"A", 10>>>>, "A", 0)
T2 == SignedTxn(<<TxnInput(G0, 0)>>, <<<<"B", 50>>>>, "A", 0)
T3 == SignedTxn(<<TxnInput(T1.txn_id, 1)>>, <<<<"B", 10>>>>, "A", 0)
T4 == SignedTxn(<<TxnInput(T1.txn_id, 0), TxnInput(T3.txn_id, 0)>>, <<<<"A", 50>>>>, "B", 0)

\* transfers that break one rule each
TSameCoinTwice == SignedTxn(<<TxnInput(G0, 0), TxnInput(G0, 0)>>, <<<<"B", 100>>>>, "A", 0)
TTwoOwners == SignedTxn(<<TxnInput(T1.txn_id, 1), TxnInput(T1.txn_id, 0)>>, <<<<"B", 50>>>>, "A", 0)
TForged == SignedTxn(<<TxnInput(G0, 0)>>, <<<<"B", 50>>>>, "B", 0)
TUnbalanced == SignedTxn(<<TxnInput(G0, 0)>>, <<<<"B", 60>>>>, "A", 0)
TNegative == SignedTxn(<<TxnInput(G0, 0)>>, <<<<"B", 60>>, <<"A", -10>>>>, "A", 0)
TWrongId == [T2 EXCEPT !.txn_id = UnknownId]
TIndexHigh == SignedTxn(<<TxnInput(G0, 1)>>, <<<<"B", 50>>>>, "A", 0)
TIndexNeg == SignedTxn(<<TxnInput(G0, -1)>>, <<<<"B", 50>>>>, "A", 0)
TUnknownCoin == SignedTxn(<<TxnInput(UnknownId, 0)>>, <<<<"B", 50>>>>, "A", 0)
TEmpty == SignedTxn(<<>>, <<>>, "A", 0)
TNoInputs == SignedTxn(<<>>, <<<<"B", 0>>>>, "A", 0)
TUnsigned == [T2 EXCEPT !.outputs[1].signature = NoSignature,
                        !.txn_id = compute_txn_id([T2 EXCEPT !.outputs[1].signature = NoSignature])]

\* what follows the coinbase in a delivered block
GoodSuffixes == << <<>>, <<T1>>, <<T2>>, <<T1, T3>>, <<T3>>, <<T3, T4>> >>

BadSuffixes ==
    << <<T1, T1>>, <<T1, T2>>, <<TSameCoinTwice>>, <<T1, TTwoOwners>>, <<TForged>>,
       <<TUnbalanced>>, <<TNegative>>, <<TWrongId>>, <<TIndexHigh>>, <<TIndexNeg>>,
       <<TUnknownCoin>>, <<TEmpty>>, <<TNoInputs>>, <<TUnsigned>> >>

\* first transactions that are not a well-formed coinbase for the reward
BadCoinbases(k) ==
    << Coinbase("A", MINING_REWARD - 1, k),
       Coinbase("A", MINING_REWARD + 1, k),
       SignedTxn(<<>>, <<<<"A", MINING_REWARD>>, <<"A", MINING_REWARD>>>>, "A", k),
       SignedTxn(<<TxnInput(G0, 0)>>, <<<<"A", MINING_REWARD>>>>, "A", k),
       SignedTxn(<<>>, <<<<"A", MINING_REWARD>>>>, "B", k),
       T2 >>

HeaderDefects == {"hash", "pow", "empty", "negative", "height", "orphan"}

\* a well-formed block on top of (prev_hash, height - 1) with one defect
DefectBlock(prev_hash, height, defect) ==
    LET cb == <<Coinbase("A", MINING_REWARD, height + 1)>>
        good == MinedBlock(prev_hash, height, cb)
        bad == FirstNonce(good, FALSE)
    IN  CASE defect = "hash" -> [good EXCEPT !.block_hash = UnknownHash]
          [] defect = "pow" -> [good EXCEPT !.nonce = bad, !.block_hash = compute_hash(good, bad)]
          [] defect = "empty" -> MinedBlock(prev_hash, height, <<>>)
          [] defect = "negative" -> [good EXCEPT !.height = -1]
          [] defect = "height" -> MinedBlock(prev_hash, height + 1, cb)
          [] OTHER -> MinedBlock(UnknownHash, height, cb)

\* the nodes the chain can reach through levels
ChainNodes(cs) == UNION {cs.levels[l] : l \in 1..Len(cs.levels)}

KnownHash(cs, h) == \E n \in ChainNodes(cs) : cs.objs[n].data.block_hash = h

(***************************************************************************)
(* miner.py and node.py: the miner threads                                 *)
(*   A run_miner thread keeps its deep copy of CHAIN in `chain`.  The      *)
(*   Transaction objects of miner.pending_txns are the transactions of     *)
(*   the last cell of chain.objs, which is the block that compose_block    *)
(*   builds on the copy's head; the cell is in no level of the copy.       *)
(*   `snap` is the copy as it was taken.                                   *)
(***************************************************************************)
\* the run_miner threads; all of them mine with the key pair of the node
Miners == {1, 2}
MinerKey == "A"

\* miner.py 15-24 and node.py 190-191: the strategy is RANDOM unless the
\* constructor is given another one
MinerStart == [pc |-> "snapshot", chain |-> EmptyChain, snap |-> EmptyChain,
               pool |-> <<>>, used |-> <<>>, strategy |-> "RANDOM", i |-> 0]

\* miner.py 35-36
first_nonce(ms) == [ms EXCEPT !.i = 0]

\* miner.py 38-47: the values next_nonce can return, and the miner after
\* the call; NonceSpace stands for 1 << 256
next_nonce(ms) == IF ms.strategy = "RANDOM" THEN 0..NonceSpace ELSE {ms.i}

next_nonce_done(ms) == IF ms.strategy = "INCREMENT" THEN [ms EXCEPT !.i = @ + 1] ELSE ms

\* the cell of chain.objs that holds miner.pending_txns
Pending(ms) == Len(ms.chain.objs)

\* Miner.num_pending_txns
num_pending_txns(ms) == Len(ms.chain.objs[Pending(ms)].data.transactions)

\* a test that is content with the coinbase
at_least_coinbase(ms) == num_pending_txns(ms) >= 1

\* node.py 114: more than just the coinbase is pending
more_than_coinbase(ms) == num_pending_txns(ms) > 1

\* Miner.generate_coinbase_txn; the signature's random value is one that no
\* other coinbase of the branch has
generate_coinbase_txn(m, height) == Coinbase(MinerKey, MINING_REWARD, 300 + 10 * height + m)

\* deepcopy(CHAIN), Miner.reset_pending_txns and, on the copy's head,
\* Miner.compose_block (node.py 197, 98, 153-154)
checkout(cs, m) ==
    LET chain_head == cs.objs[cs.head_block].data
        block == Block(chain_head.block_hash, chain_head.height + 1, 0,
                       <<generate_coinbase_txn(m, chain_head.height + 1)>>, <<>>)
    IN  [cs EXCEPT !.objs = Append(@, BlockChainNode(cs.head_block, block))]

\* Miner.add_pending_txn, on the cells of the copy
add_pending_txn(cells, txn) ==
    [cells EXCEPT ![Len(cells)].data.transactions = Append(@, txn),
                  ![Len(cells)].spent = Append(@, [j \in 1..Len(txn.outputs) |-> FALSE])]

\* node.py 127-146: one pass over the pool, from position i (1-based) on;
\* `looked` lists the transactions the pass has looked at (node.py 131),
\* `full` says that the pass returned True at MAX_TXN_COUNT; on a None in
\* the pool verify_transaction raises AttributeError (chain.py 269), which
\* ends the thread
RECURSIVE examine(_, _, _)

\* an addition to the block that is not applied to the copy of the chain
examine_added_no_apply(ms, i, looked) ==
    IF num_pending_txns(ms) >= MAX_TXN_COUNT
    THEN [ms |-> ms, full |-> TRUE, looked |-> looked]
    ELSE examine(ms, i + 1, looked)

\* node.py 141-146: the transaction at position i was added to the block
examine_added(ms, i, looked) ==
    LET m1 == [ms EXCEPT !.chain = apply_transaction(@, <<Pending(ms), num_pending_txns(ms)>>)]
    IN  IF num_pending_txns(m1) >= MAX_TXN_COUNT
        THEN [ms |-> m1, full |-> TRUE, looked |-> looked]
        ELSE examine(m1, i + 1, looked)

examine(ms, i, looked) ==
    IF i > Len(ms.pool) THEN [ms |-> ms, full |-> FALSE, looked |-> looked]
    ELSE IF ms.used[i] THEN examine(ms, i + 1, looked)
    ELSE IF ms.pool[i] = PyNone
         THEN [ms |-> [ms EXCEPT !.pc = "raised"], full |-> FALSE,
               looked |-> Append(looked, PyNone)]
    ELSE IF ~verify_transaction(ms.chain, ms.pool[i], FALSE)
         THEN examine([ms EXCEPT !.pool = RemoveAt(@, i), !.used = RemoveAt(@, i)],
                      i + 1, Append(looked, ms.pool[i]))
         ELSE examine_added([ms EXCEPT !.used[i] = TRUE,
                                       !.chain.objs = add_pending_txn(@, ms.pool[i])],
                            i, Append(looked, ms.pool[i]))

\* a nonce test that accepts every nonce
valid_nonce_any(block, nonce) == TRUE

\* Miner.valid_nonce
valid_nonce(block, nonce) == valid_block_hash(compute_hash(block, nonce))

\* Block.set_nonce, called at node.py 159
set_nonce(block, nonce) ==
    [block EXCEPT !.nonce = nonce, !.block_hash = compute_hash(block, nonce)]

(***************************************************************************)
(* The state machine: one BlockChain object and the calls made on it       *)
(***************************************************************************)
Chain == ChainOf(objs, levels, transactions, max_height, head_block, err)

(***************************************************************************)
(* wallet.py                                                               *)
(***************************************************************************)
\* node.py 57-58, 75-76: deepcopy(list(CHAIN.transactions.values())); a
\* LinkedTransaction of the copy with the coins its inputs link to and the
\* spent flags of its outputs
chain_transactions(cs) ==
    [j \in 1..Len(cs.transactions) |->
        LET e == cs.transactions[j]
            txn == TxnOf(cs, e.obj)
        IN  [txn_id |-> e.txn_id,
             inputs |-> [i \in 1..Len(e.inputs) |->
                            LET from == TxnOf(cs, e.inputs[i].txn)
                                o == PyIndex(Len(from.outputs), e.inputs[i].index)
                            IN  [txn_id |-> e.inputs[i].txn_id,
                                 index |-> e.inputs[i].index,
                                 pub_key |-> from.outputs[o].pub_key]],
             outputs |-> [o \in 1..Len(txn.outputs) |->
                            [pub_key |-> txn.outputs[o].pub_key,
                             amount |-> txn.outputs[o].amount,
                             spent |-> cs.objs[e.obj[1]].spent[e.obj[2]][o]]]]]

\* wallet.py 111-127: what the two loops over one transaction leave in
\* involved, sender_pubkey, receiver_pubkey, amount and balance
RECURSIVE balance_outputs(_, _, _, _)
balance_outputs(w, outputs, o, acc) ==
    IF o > Len(outputs) THEN acc
    ELSE LET coin == outputs[o]
             a1 == IF coin.pub_key /= acc.sender
                   THEN [acc EXCEPT !.receiver = coin.pub_key, !.amount = coin.amount]
                   ELSE acc
             a2 == IF coin.pub_key = w.pub_key THEN [a1 EXCEPT !.involved = TRUE] ELSE a1
             a3 == IF coin.pub_key = w.pub_key /\ ~coin.spent
                   THEN [a2 EXCEPT !.balance = @ + coin.amount]
                   ELSE a2
         IN  balance_outputs(w, outputs, o + 1, a3)

\* wallet.py 99-135
RECURSIVE get_balance_from(_, _, _, _)
get_balance_from(w, txns, j, bal) ==
    IF j > Len(txns) THEN bal
    ELSE LET txn == txns[j]
             n == Len(txn.inputs)
             start == [involved |-> \E i \in 1..n : txn.inputs[i].pub_key = w.pub_key,
                       sender |-> IF n = 0 THEN NoKey ELSE txn.inputs[n].pub_key,
                       receiver |-> NoKey, amount |-> 0, balance |-> bal.total]
             acc == balance_outputs(w, txn.outputs, 1, start)
         IN  get_balance_from(w, txns, j + 1,
                 [involved_txns |->
                      IF acc.involved
                      THEN Append(bal.involved_txns,
                                  [txn_id |-> txn.txn_id, from_pub_key |-> acc.sender,
                                   to_pub_key |-> acc.receiver, amount |-> acc.amount])
                      ELSE bal.involved_txns,
                  total |-> acc.balance])

get_balance(w, txns) == get_balance_from(w, txns, 1, [involved_txns |-> <<>>, total |-> 0])

\* wallet.py 137-156: the transactions with a coin of the wallet are kept,
\* and the pending transfers that the list confirms are dropped
load_transactions(w, txns) ==
    LET mine(txn) == \E o \in 1..Len(txn.outputs) :
                        txn.outputs[o].pub_key = w.pub_key /\ ~txn.outputs[o].spent
        RECURSIVE keep(_)
        keep(j) == IF j > Len(txns) THEN <<>>
                   ELSE (IF mine(txns[j]) THEN <<txns[j]>> ELSE <<>>) \o keep(j + 1)
        RECURSIVE left(_)
        left(j) == IF j > Len(w.pending) THEN <<>>
                   ELSE (IF \E k \in 1..Len(txns) : txns[k].txn_id = w.pending[j].txn_id
                         THEN <<>> ELSE <<w.pending[j]>>) \o left(j + 1)
    IN  [w EXCEPT !.transactions = keep(1), !.pending = left(1)]

\* wallet.py 158-178 without the test of the total, and the coins gathered
\* are returned when they do not reach the target
RECURSIVE find_coins_gathered(_, _, _, _, _, _)
find_coins_gathered(w, target_amount, t, i, tot, in_txns) ==
    IF t > Len(w.transactions) THEN in_txns
    ELSE IF i > Len(w.transactions[t].outputs)
    THEN find_coins_gathered(w, target_amount, t + 1, 1, tot, in_txns)
    ELSE LET coin == w.transactions[t].outputs[i]
         IN  IF coin.pub_key /= w.pub_key \/ coin.spent
             THEN find_coins_gathered(w, target_amount, t, i + 1, tot, in_txns)
             ELSE find_coins_gathered(w, target_amount, t, i + 1, tot + coin.amount,
                                      Append(in_txns, <<t, i - 1>>))

\* wallet.py 158-178: the loop from output i of transaction t on, with the
\* total and the coins gathered so far; a coin is <<position of its
\* transaction in self.transactions, index of the output>>
RECURSIVE find_coins_from(_, _, _, _, _, _)
find_coins_from(w, target_amount, t, i, tot, in_txns) ==
    IF t > Len(w.transactions) THEN <<>>
    ELSE IF i > Len(w.transactions[t].outputs)
    THEN find_coins_from(w, target_amount, t + 1, 1, tot, in_txns)
    ELSE LET coin == w.transactions[t].outputs[i]
         IN  IF coin.pub_key /= w.pub_key \/ coin.spent
             THEN find_coins_from(w, target_amount, t, i + 1, tot, in_txns)
             ELSE IF tot + coin.amount >= target_amount
             THEN Append(in_txns, <<t, i - 1>>)
             ELSE find_coins_from(w, target_amount, t, i + 1, tot + coin.amount,
                                  Append(in_txns, <<t, i - 1>>))

\* wallet.py 158-178
find_coins(w, target_amount) == find_coins_from(w, target_amount, 1, 1, 0, <<>>)

\* wallet.py 192 with a change output in every case
change_due_always(rem) == TRUE

\* wallet.py 192: `if rem > 0`
change_due(rem) == rem > 0

\* wallet.py 180-198; k is the random value of the signature.  PyNone when
\* find_coins finds nothing
create_txn(w, target_pub_key, target_amount, k) ==
    LET txns == find_coins(w, target_amount)
    IN  IF txns = <<>> THEN PyNone
        ELSE LET RECURSIVE total(_)
                 total(j) == IF j > Len(txns) THEN 0
                             ELSE w.transactions[txns[j][1]].outputs[txns[j][2] + 1].amount
                                  + total(j + 1)
                 inputs == [j \in 1..Len(txns) |->
                               TxnInput(w.transactions[txns[j][1]].txn_id, txns[j][2])]
                 rem == total(1) - target_amount
                 outputs == <<TxnOutput(target_pub_key, target_amount, NoSignature)>>
                            \o (IF change_due(rem) THEN <<TxnOutput(w.pub_key, rem, NoSignature)>>
                                ELSE <<>>)
             IN  Transaction_sign([txn_id |-> NoTxnId, inputs |-> inputs,
                                   outputs |-> outputs], w.pri_key, k)

\* chain.py 77-83 with nothing written
save_block_to_file_nothing(dir, block) == dir

\* chain.py 77-83: the block's JSON is appended as one line to the file
\* named by its height
save_block_to_file(dir, block) ==
    IF block.height \in DOMAIN dir
    THEN [dir EXCEPT ![block.height] = Append(@, Block_to_json(block))]
    ELSE dir @@ (block.height :> <<Block_to_json(block)>>)

\* a storage directory that holds the genesis block in its file 0
StorageDir == 0 :> <<Block_to_json(GenesisBlock)>>

\* the Wallet object of main (node.py 333) before its first command, and
\* what the last command printed
WalletStart ==
    [pub_key |-> MinerKey, pri_key |-> MinerKey, transactions |-> <<>>,
     pending |-> <<>>, printed |-> [cmd |-> "none"]]

\* the state after BlockChain.__init__ (chain.py 22-39) on a storage
\* directory whose file 0 holds the genesis block
Loaded == insert_block(EmptyChain, GenesisBlock)

\* no object is being written as JSON
NoCodec == [stage |-> "none"]

InitNodeWith(strategies) ==
    /\ objs = Loaded.cs.objs
    /\ levels = Loaded.cs.levels
    /\ transactions = Loaded.cs.transactions
    /\ max_height = Loaded.cs.max_height
    /\ head_block = Loaded.cs.head_block
    /\ err = Loaded.cs.err
    /\ result = Loaded.result
    /\ TXN_QUEUE = <<>>
    /\ BLOCK_QUEUE = <<>>
    /\ CHAIN_MODIFIED = FALSE
    /\ miners = [m \in Miners |-> [MinerStart EXCEPT !.strategy = strategies[m]]]
    /\ deposited = <<>>
    /\ OUT_QUEUE = <<>>
    /\ wire = <<>>
    /\ net = "up"
    /\ files = StorageDir
    /\ maint = <<>>
    /\ wallet = WalletStart

\* node.py 329: Miner(pub_key, pri_key), the strategy is RANDOM
InitNode == InitNodeWith([m \in Miners |-> "RANDOM"])

Init ==
    /\ InitNode
    /\ codec = NoCodec

\* one call CHAIN.insert_block(block); an exception that escapes leaves the
\* object as it was when raised and ends the run
Call(block, bound) ==
    /\ err = "ok"
    /\ Len(objs) < bound
    /\ \E r \in {insert_block(Chain, block)} :
           /\ objs' = r.cs.objs
           /\ levels' = r.cs.levels
           /\ transactions' = r.cs.transactions
           /\ max_height' = r.cs.max_height
           /\ head_block' = r.cs.head_block
           /\ err' = r.cs.err
           /\ result' = r.result
    /\ UNCHANGED nodeVars

ParentHash(n) == objs[n].data.block_hash
ChildHeight(n) == objs[n].data.height + 1

\* the transactions of the i-th well-formed block of a height: a coinbase
\* of miner B, signed with a random value of its own, and a suffix
GoodBlockTxns(height, i) ==
    <<Coinbase("B", MINING_REWARD, Len(GoodSuffixes) * height + i)>> \o GoodSuffixes[i]

\* a block with a well-formed header and coinbase on top of a known block
DeliverBlock ==
    \E n \in ChainNodes(Chain), i \in 1..Len(GoodSuffixes) :
        Call(MinedBlock(ParentHash(n), ChildHeight(n),
                 GoodBlockTxns(ChildHeight(n), i)),
             MaxNodes)

\* a block on top of the head with a transfer that breaks a rule
DeliverBadTransfer ==
    \E n \in {head_block}, i \in 1..Len(BadSuffixes) :
        Call(MinedBlock(ParentHash(n), ChildHeight(n),
                 <<Coinbase("A", MINING_REWARD, ChildHeight(n) + 1)>> \o BadSuffixes[i]),
             MaxNodes)

\* a block on top of the head whose first transaction is not a coinbase for
\* the reward
DeliverBadCoinbase ==
    \E n \in {head_block}, i \in 1..Len(BadCoinbases(0)) :
        Call(MinedBlock(ParentHash(n), ChildHeight(n),
                 <<BadCoinbases(ChildHeight(n) + 1)[i]>>),
             MaxNodes)

\* a block with a defect in its header
DeliverDefect ==
    \E n \in ChainNodes(Chain), d \in HeaderDefects :
        Call(DefectBlock(ParentHash(n), ChildHeight(n), d), MaxNodes)

\* a block of height 0: the genesis block again, or another one
DeliverRoot ==
    \E miner \in Keys :
        /\ Call(MinedBlock(ZeroHash, 0, <<Coinbase(miner, MINING_REWARD, 1)>>),
                MaxNodes)

Next ==
    \/ DeliverBlock
    \/ DeliverBadTransfer
    \/ DeliverBadCoinbase
    \/ DeliverDefect
    \/ DeliverRoot

Spec == Init /\ [][Next]_vars

\* Only blocks that are valid on the branch of their predecessor arrive.
DeliverValid ==
    \E n \in ChainNodes(Chain), i \in 1..Len(GoodSuffixes) :
        /\ Call(MinedBlock(ParentHash(n), ChildHeight(n),
                    GoodBlockTxns(ChildHeight(n), i)),
                MaxValidNodes)
        /\ result' = "Inserted"

NextValid == DeliverValid

SpecValid == Init /\ [][NextValid]_vars

\* A long chain, for the reorg horizon: blocks that hold only a coinbase
\* arrive on top of the head, on top of older blocks, and without a known
\* predecessor.
OnHeadBlock == MinedBlock(ParentHash(head_block), ChildHeight(head_block),
                          GoodBlockTxns(ChildHeight(head_block), 1))

\* a valid block of miner A on top of node n
ForkBlock(n) ==
    MinedBlock(ParentHash(n), ChildHeight(n),
               <<Coinbase("A", MINING_REWARD, 100 + ChildHeight(n))>>)

\* a well-formed block of height h whose prev_hash is prev_hash
OrphanBlock(prev_hash, h) ==
    MinedBlock(prev_hash, h, <<Coinbase("A", MINING_REWARD, 200 + h)>>)

\* the heights of the blocks that arrive without a known predecessor: the
\* first levels, the levels at the reorg horizon, the top level and the
\* two above it
DeepHeights ==
    {h \in 1..(Len(levels) + 1) :
        \/ h <= 2
        \/ h >= Len(levels) - 1
        \/ (h >= max_height - MAX_BLOCKS_BEHIND - 1 /\ h <= max_height - MAX_BLOCKS_BEHIND + 1)}

\* prev_hash values that are not the hash of a block of level h - 1: a hash
\* no block has, and the hash of the genesis block or of the head where that
\* block is on another level
StrangeHashes(h) ==
    {UnknownHash} \cup {objs[n].data.block_hash : n \in {m \in {1, head_block} : ChildHeight(m) /= h}}

\* the nodes that are not on the head's branch
OffBranch == Len(objs) - (objs[head_block].data.height + 1)

DeliverOnHead == /\ Call(OnHeadBlock, MaxDeepNodes)

\* the blocks on top of which a competing block arrives: those at the reorg
\* horizon and below it, and the one below the top level
ForkParents ==
    {n \in ChainNodes(Chain) :
        \/ objs[n].data.height <= max_height - MAX_BLOCKS_BEHIND + 1
        \/ objs[n].data.height = max_height - 1}

DeliverFork ==
    \E n \in ForkParents :
        /\ \/ OffBranch < MaxForks /\ Len(objs) < MaxDeepNodes
           \/ too_old(Chain, ForkBlock(n))
        /\ Call(ForkBlock(n), MaxDeepNodes + 1)

DeliverOrphan ==
    \E h \in DeepHeights : \E prev_hash \in StrangeHashes(h) :
        Call(OrphanBlock(prev_hash, h), MaxDeepNodes + 1)

NextDeep ==
    \/ DeliverOnHead
    \/ DeliverFork
    \/ DeliverOrphan

SpecDeep == Init /\ [][NextDeep]_vars

(***************************************************************************)
(* The node: miner threads, the wallet and the network putting             *)
(* transactions and blocks into the queues, and the maintainer that        *)
(* inserts the queued blocks into CHAIN                                     *)
(***************************************************************************)
\* the transactions that the wallet and the peers send
NodeTxns == {TForged, T1, T2, T3, T4}

\* the orders in which they are sent: an invalid transfer before two valid
\* ones of which the second spends the first, two transfers of the same
\* coin in both orders, and a chain of three transfers
SendOrders == {<<TForged, T1, T3>>, <<T1, T2, T3>>, <<T2, T1, T3>>, <<T1, T3, T4>>}

Range(seq) == {seq[j] : j \in 1..Len(seq)}

\* back at the top of the loop of run_miner: the copy is dropped
Idle(ms) == [ms EXCEPT !.pc = "snapshot", !.chain = EmptyChain, !.snap = EmptyChain]

\* node.py 195-198 and 98-99: the copy is taken under chain_lock, and
\* accept_txns starts with a pending set that holds the coinbase
Snapshot(m) ==
    /\ miners[m].pc = "snapshot"
    /\ err = "ok"
    /\ Len(objs) + Len(BLOCK_QUEUE) <= MaxNodeObjs
    /\ miners' = [miners EXCEPT ![m].pc = "accept", ![m].snap = Chain,
                                ![m].chain = checkout(Chain, m)]
    /\ UNCHANGED <<chainVars, TXN_QUEUE, BLOCK_QUEUE, CHAIN_MODIFIED, deposited>>
    /\ UNCHANGED <<planeVars, files, maint>>

\* node.py 104 and 112-118: the flag is read; if it is not set and the
\* timeout has elapsed with more than the coinbase pending, accept_txns
\* returns True and find_nonce starts
AcceptCheck(m) ==
    /\ miners[m].pc = "accept"
    /\ \E timeout \in BOOLEAN :
           miners' = [miners EXCEPT ![m] =
                         IF CHAIN_MODIFIED THEN [@ EXCEPT !.pc = "accept_reset"]
                         ELSE IF timeout /\ more_than_coinbase(miners[m])
                         THEN first_nonce([@ EXCEPT !.pc = "mine"])
                         ELSE [@ EXCEPT !.pc = "drain"]]
    /\ UNCHANGED <<chainVars, TXN_QUEUE, BLOCK_QUEUE, CHAIN_MODIFIED, deposited>>
    /\ UNCHANGED <<planeVars, files, maint>>

\* node.py 105-109: the flag is unset and accept_txns returns False
AcceptReset(m) ==
    /\ miners[m].pc = "accept_reset"
    /\ CHAIN_MODIFIED' = FALSE
    /\ miners' = [miners EXCEPT ![m] = Idle(@)]
    /\ UNCHANGED <<chainVars, TXN_QUEUE, BLOCK_QUEUE, deposited>>
    /\ UNCHANGED <<planeVars, files, maint>>

\* node.py 120-125: TXN_QUEUE is emptied into the pool
Drain(m) ==
    /\ miners[m].pc = "drain"
    /\ miners' = [miners EXCEPT ![m].pc = "pass",
                                ![m].pool = @ \o TXN_QUEUE,
                                ![m].used = @ \o [j \in 1..Len(TXN_QUEUE) |-> FALSE]]
    /\ TXN_QUEUE' = <<>>
    /\ UNCHANGED <<chainVars, BLOCK_QUEUE, CHAIN_MODIFIED, deposited>>
    /\ UNCHANGED <<planeVars, files, maint>>

\* the positions of miner.pending_txns whose Transaction objects a pass
\* has written: the transactions it added (chain.py 173-175 on the copy)
\* and those of which it spent a coin (chain.py 171 on the copy)
written(before, after) ==
    {p \in 2..num_pending_txns(after) :
        \/ p > num_pending_txns(before)
        \/ after.chain.objs[Pending(after)].spent[p]
               /= before.chain.objs[Pending(before)].spent[p]}

\* find_nonce puts the Transaction objects of the pool into its block
\* (miner.py 50, node.py 164-165) and run_miner keeps them in the pool
\* (node.py 169-171 rebinds locals only): a block of miner m in a cell of
\* CHAIN holds the very objects of m's pool, so what a pass writes on
\* them is written in that cell
shared_writes(cells, before, after, m) ==
    LET ws == after.chain.objs[Pending(after)]
        src(n, q) == {p \in written(before, after) :
                         ws.data.transactions[p] = cells[n].data.transactions[q]}
    IN  [n \in 1..Len(cells) |->
            IF cells[n].data.transactions /= <<>>
               /\ cells[n].data.transactions[1].inputs = <<>>
               /\ cells[n].data.transactions[1]
                      = generate_coinbase_txn(m, cells[n].data.height)
            THEN [cells[n] EXCEPT !.spent =
                     [q \in 1..Len(@) |->
                         IF q >= 2 /\ src(n, q) /= {}
                         THEN ws.spent[CHOOSE p \in src(n, q) : TRUE]
                         ELSE @[q]]]
            ELSE cells[n]]

\* node.py 127-146: the pass over the pool
Pass(m) ==
    /\ miners[m].pc = "pass"
    /\ \E r \in {examine(miners[m], 1, <<>>)} :
           /\ miners' = [miners EXCEPT ![m] =
                            IF r.ms.pc = "raised" THEN r.ms
                            ELSE IF r.full THEN first_nonce([r.ms EXCEPT !.pc = "mine"])
                            ELSE [r.ms EXCEPT !.pc = "accept"]]
           /\ objs' = shared_writes(objs, miners[m], r.ms, m)
    /\ UNCHANGED <<levels, transactions, max_height, head_block, err, result>>
    /\ UNCHANGED <<TXN_QUEUE, BLOCK_QUEUE, CHAIN_MODIFIED, deposited>>
    /\ UNCHANGED <<planeVars, files, maint>>

\* node.py 157-185: one turn of the loop of find_nonce, with the nonce
\* that next_nonce draws.  NonceSpace stands for 1 << 256: nonce 0 ends the
\* `while nonce := ...` loop, nonce 1 << 256 does not fit nonce.to_bytes(32)
\* and the OverflowError ends the thread.
Attempt(m) ==
    /\ miners[m].pc = "mine"
    /\ \E nonce \in next_nonce(miners[m]) :
           LET ms == next_nonce_done(miners[m])
               block == ms.chain.objs[Pending(ms)].data
           IN  IF nonce = 0
               THEN /\ miners' = [miners EXCEPT ![m] = Idle(ms)]
                    /\ UNCHANGED <<BLOCK_QUEUE, OUT_QUEUE>>
               ELSE IF ms.strategy = "RANDOM" /\ nonce = NonceSpace
               THEN /\ miners' = [miners EXCEPT ![m] = [ms EXCEPT !.pc = "crashed"]]
                    /\ UNCHANGED <<BLOCK_QUEUE, OUT_QUEUE>>
               ELSE IF valid_nonce(block, nonce)
               THEN /\ Len(objs) + Len(BLOCK_QUEUE) < MaxNodeObjs
                    /\ BLOCK_QUEUE' = Append(BLOCK_QUEUE, set_nonce(block, nonce))
                    /\ OUT_QUEUE' = Append(OUT_QUEUE,
                                           Block_to_message(set_nonce(block, nonce)))
                    /\ miners' = [miners EXCEPT ![m] = Idle(ms)]
               ELSE IF CHAIN_MODIFIED
               THEN /\ miners' = [miners EXCEPT ![m] =
                                      [ms EXCEPT !.pc = "mine_reset",
                                                 !.used = [j \in 1..Len(ms.used) |-> FALSE]]]
                    /\ UNCHANGED <<BLOCK_QUEUE, OUT_QUEUE>>
               ELSE /\ miners' = [miners EXCEPT ![m] = ms]
                    /\ UNCHANGED <<BLOCK_QUEUE, OUT_QUEUE>>
    /\ UNCHANGED <<chainVars, TXN_QUEUE, CHAIN_MODIFIED, deposited>>
    /\ UNCHANGED <<wire, net, files, maint, wallet, codec>>

\* node.py 181-185: the flag is unset and find_nonce returns False
MineReset(m) ==
    /\ miners[m].pc = "mine_reset"
    /\ CHAIN_MODIFIED' = FALSE
    /\ miners' = [miners EXCEPT ![m] = Idle(@)]
    /\ UNCHANGED <<chainVars, TXN_QUEUE, BLOCK_QUEUE, deposited>>
    /\ UNCHANGED <<planeVars, files, maint>>

\* the maintainer, one iteration as one step: the first block of BLOCK_QUEUE
\* is inserted into CHAIN under chain_lock and, when it was Inserted,
\* appended to the file of its height, and then CHAIN_MODIFIED is set
Maintain ==
    /\ BLOCK_QUEUE /= <<>>
    /\ Head(BLOCK_QUEUE) /= PyNone
    /\ maint = <<>>
    /\ err = "ok"
    /\ \E r \in {insert_block(Chain, Head(BLOCK_QUEUE))} :
           /\ objs' = r.cs.objs
           /\ levels' = r.cs.levels
           /\ transactions' = r.cs.transactions
           /\ max_height' = r.cs.max_height
           /\ head_block' = r.cs.head_block
           /\ err' = r.cs.err
           /\ result' = r.result
           /\ files' = IF r.cs.err = "ok" /\ r.result = "Inserted"
                       THEN save_block_to_file(files, Head(BLOCK_QUEUE))
                       ELSE files
           /\ CHAIN_MODIFIED' = (CHAIN_MODIFIED \/ r.result = "Inserted")
    /\ BLOCK_QUEUE' = Tail(BLOCK_QUEUE)
    /\ UNCHANGED <<TXN_QUEUE, miners, deposited, planeVars, maint>>

\* node.py 69-70 (wallet) and 273-275 (network): a transaction is put into
\* TXN_QUEUE; the transactions arrive in one of the orders of SendOrders
Deposit(bound) ==
    \E txn \in NodeTxns :
        /\ Len(deposited) < bound
        /\ \E order \in SendOrders :
               /\ Len(order) > Len(deposited)
               /\ SubSeq(order, 1, Len(deposited) + 1) = Append(deposited, txn)
        /\ TXN_QUEUE' = Append(TXN_QUEUE, txn)
        /\ deposited' = Append(deposited, txn)
        /\ UNCHANGED <<chainVars, BLOCK_QUEUE, CHAIN_MODIFIED, miners>>
        /\ UNCHANGED <<planeVars, files, maint>>

\* an ingress that puts the block at the front of BLOCK_QUEUE
ReceiveBlock_front ==
    /\ err = "ok"
    /\ Len(objs) + Len(BLOCK_QUEUE) < MaxNodeObjs
    /\ OnHeadBlock \notin Range(BLOCK_QUEUE)
    /\ BLOCK_QUEUE' = <<OnHeadBlock>> \o BLOCK_QUEUE
    /\ UNCHANGED <<chainVars, TXN_QUEUE, CHAIN_MODIFIED, miners, deposited>>
    /\ UNCHANGED <<planeVars, files, maint>>

\* node.py 270-272: a block of a peer, mined on top of the head, is put
\* into BLOCK_QUEUE
ReceiveBlock ==
    /\ err = "ok"
    /\ Len(objs) + Len(BLOCK_QUEUE) < MaxNodeObjs
    /\ OnHeadBlock \notin Range(BLOCK_QUEUE)
    /\ BLOCK_QUEUE' = Append(BLOCK_QUEUE, OnHeadBlock)
    /\ UNCHANGED <<chainVars, TXN_QUEUE, CHAIN_MODIFIED, miners, deposited>>
    /\ UNCHANGED <<planeVars, files, maint>>

\* one miner thread
NextMiner ==
    \/ \E m \in {1} : Snapshot(m)
    \/ \E m \in {1} : AcceptCheck(m)
    \/ \E m \in {1} : AcceptReset(m)
    \/ \E m \in {1} : Drain(m)
    \/ \E m \in {1} : Pass(m)
    \/ \E m \in {1} : Attempt(m)
    \/ \E m \in {1} : MineReset(m)
    \/ Maintain
    \/ Deposit(MaxDeposits)
    \/ ReceiveBlock

SpecMiner == Init /\ [][NextMiner]_vars

\* several miner threads
NextNode ==
    \/ \E m \in Miners : Snapshot(m)
    \/ \E m \in Miners : AcceptCheck(m)
    \/ \E m \in Miners : AcceptReset(m)
    \/ \E m \in Miners : Drain(m)
    \/ \E m \in Miners : Pass(m)
    \/ \E m \in Miners : Attempt(m)
    \/ \E m \in Miners : MineReset(m)
    \/ Maintain
    \/ Deposit(MaxNodeDeposits)
    \/ ReceiveBlock

SpecNode == Init /\ [][NextNode]_vars


(***************************************************************************)
(* Views of the state that the properties below speak about                *)
(***************************************************************************)
Height(n) == objs[n].data.height
HashOf(n) == objs[n].data.block_hash
TxnsOf(n) == objs[n].data.transactions

\* the nodes from the genesis block to node n, following prev
RECURSIVE PathTo(_)
PathTo(n) == IF n = 0 THEN <<>> ELSE Append(PathTo(objs[n].prev), n)

OnPath(n, tip) == \E i \in 1..Len(PathTo(tip)) : PathTo(tip)[i] = n

TxnIdsOf(n) == {TxnsOf(n)[p].txn_id : p \in 1..Len(TxnsOf(n))}

\* the ids of the transactions of the blocks from genesis to node n
BranchTxnIds(n) == UNION {TxnIdsOf(PathTo(n)[i]) : i \in 1..Len(PathTo(n))}

\* the keys of the transactions dict
AppliedTxnIds == {transactions[j].txn_id : j \in 1..Len(transactions)}

\* every Transaction object of every block the chain holds
TxnRefs == UNION {{<<n, p>> : p \in 1..Len(TxnsOf(n))} : n \in 1..Len(objs)}

\* the coin a TxnInput names: the output of the transaction with that id
CoinOf(txn_in) ==
    LET ref == CHOOSE r \in TxnRefs : TxnOf(Chain, r).txn_id = txn_in.txn_id
    IN  TxnOf(Chain, ref).outputs[txn_in.index + 1]

\* transactions and spent flags as a caller reads them: by txn_id
ViewOf(cs) ==
    {[txn_id |-> cs.transactions[j].txn_id,
      spent |-> cs.objs[cs.transactions[j].obj[1]].spent[cs.transactions[j].obj[2]]] :
        j \in 1..Len(cs.transactions)}

AppliedView == ViewOf(Chain)
HeadHash == HashOf(head_block)
LevelHashes == [l \in 1..Len(levels) |-> {HashOf(n) : n \in levels[l]}]


\* the state an empty chain reaches when the blocks of `path` are applied in
\* order, and nothing else
RECURSIVE ReplayFrom(_, _, _)
ReplayFrom(cs, path, i) ==
    IF i > Len(path) THEN cs ELSE ReplayFrom(apply_block(cs, path[i]), path, i + 1)

Replay(path) ==
    ReplayFrom(ChainOf([n \in 1..Len(objs) |-> BlockChainNode(objs[n].prev, objs[n].data)],
                       <<>>, <<>>, 0, 0, "ok"),
               path, 1)

\* the (txn_id, index) pairs the inputs of the applied transactions name,
\* one entry per input
AppliedInputs ==
    UNION {{<<j, a>> : a \in 1..Len(TxnOf(Chain, transactions[j].obj).inputs)} :
               j \in 1..Len(transactions)}

InputAt(ja) == TxnOf(Chain, transactions[ja[1]].obj).inputs[ja[2]]

RECURSIVE SumCoins(_)
SumCoins(ins) ==
    IF ins = {} THEN 0
    ELSE LET x == CHOOSE y \in ins : TRUE
         IN  CoinOf(x).amount + SumCoins(ins \ {x})

\* the transfers (every transaction but the first) of the blocks in levels
Transfers == {ref \in TxnRefs : ref[1] \in ChainNodes(Chain) /\ ref[2] > 1}

(***************************************************************************)
(* Properties                                                              *)
(***************************************************************************)
\* C1: after any sequence of insert_block calls the keys of `transactions`
\* are exactly the ids of the transactions of the blocks from genesis to
\* head_block.
C1_TransactionsFollowHead ==
    err = "ok" => AppliedTxnIds = BranchTxnIds(head_block)

\* C2: no two inputs of the applied transactions, two inputs of one
\* transaction included, name the same (txn_id, index) pair.
C2_NoCoinReferencedTwice ==
    \A x \in AppliedInputs, y \in AppliedInputs :
        x /= y => InputAt(x) /= InputAt(y)

\* C3: the first transaction of every accepted block has no inputs and
\* exactly one output, whose amount is MINING_REWARD.
C3_CoinbasePaysReward ==
    \A n \in ChainNodes(Chain) :
        /\ Len(TxnsOf(n)) >= 1
        /\ Len(TxnsOf(n)[1].inputs) = 0
        /\ Len(TxnsOf(n)[1].outputs) = 1
        /\ TxnsOf(n)[1].outputs[1].amount = MINING_REWARD

\* C4: for every transfer in an accepted block the amounts of the coins it
\* consumes add up to the amounts of its outputs, and no output is negative.
C4_TransfersConserveValue ==
    \A ref \in Transfers :
        LET txn == TxnOf(Chain, ref)
            consumed == {txn.inputs[a] : a \in 1..Len(txn.inputs)}
        IN  /\ SumCoins(consumed) = sum_outputs(txn.outputs, 1)
            /\ \A j \in 1..Len(txn.outputs) : txn.outputs[j].amount >= 0

\* C5: for every transfer in an accepted block all consumed coins carry one
\* pub_key, and every output is signed by that key over the transfer's
\* inputs and the output's pub_key.
C5_OwnerOnlySpends ==
    \A ref \in Transfers :
        LET txn == TxnOf(Chain, ref)
        IN  \A a \in 1..Len(txn.inputs) :
                LET owner == CoinOf(txn.inputs[a]).pub_key
                IN  /\ owner = CoinOf(txn.inputs[1]).pub_key
                    /\ \A j \in 1..Len(txn.outputs) :
                           /\ txn.outputs[j].signature.signer = owner
                           /\ txn.outputs[j].signature.payload =
                                  SignedPayload(txn.inputs, txn.outputs[j].pub_key)

\* C5 happens: an accepted transfer consumes two different coins
C5_Witness ==
    \E ref \in Transfers :
        LET txn == TxnOf(Chain, ref)
        IN  Len(txn.inputs) = 2 /\ txn.inputs[1] /= txn.inputs[2]


\* the number of leading zero bits of a hash
RECURSIVE LeadingZeros(_, _)
LeadingZeros(bits, i) ==
    IF i > Len(bits) \/ bits[i] /= 0 THEN 0 ELSE 1 + LeadingZeros(bits, i + 1)

\* C6: head_block is a node of maximal height, and among the blocks of that
\* height it is the one that was inserted first.
C6_FirstSeenWins ==
    \A n \in 1..Len(objs) :
        /\ Height(n) <= Height(head_block)
        /\ Height(n) = Height(head_block) =>
               \E m \in 1..n : HashOf(m) = HeadHash

\* C7: on a chain built from valid blocks, a block that is strictly taller
\* than every other block is the head, only transactions of the head's
\* branch are applied, and `transactions` with every coin's spent flag is
\* what applying the blocks of the head's branch to an empty chain gives.
C7_ReorgEqualsReplay ==
    /\ err = "ok"
    /\ \A n \in 1..Len(objs) :
           (\A m \in 1..Len(objs) : HashOf(m) /= HashOf(n) => Height(m) < Height(n))
               => HeadHash = HashOf(n)
    /\ AppliedTxnIds \subseteq BranchTxnIds(head_block)
    /\ AppliedView = ViewOf(Replay(PathTo(head_block)))

\* C7 happens: the head is strictly taller than an older block off its
\* branch, and a transaction of that block is no longer applied
C7_Witness ==
    \E n \in 1..Len(objs) :
        /\ ~OnPath(n, head_block)
        /\ n < head_block
        /\ Height(n) < Height(head_block)
        /\ \E m \in 1..Len(objs) : OnPath(m, head_block) /\ Height(m) = Height(n) /\ m > n
        /\ TxnIdsOf(n) \ AppliedTxnIds /= {}
        /\ \E j \in 1..Len(transactions) :
               \E o \in 1..Len(TxnOf(Chain, transactions[j].obj).outputs) :
                   objs[transactions[j].obj[1]].spent[transactions[j].obj[2]][o]

\* C8: a call that inserts a block whose hash is already in the chain leaves
\* the head's hash, max_height, the hashes of every level, the keys of
\* `transactions` and the spent flags as they were.
C8_ReinsertChangesNothing ==
    [][(/\ Len(objs') = Len(objs) + 1
        /\ result' = "Inserted"
        /\ KnownHash(Chain, objs'[Len(objs')].data.block_hash))
       => (/\ HeadHash' = HeadHash
           /\ max_height' = max_height
           /\ LevelHashes' = LevelHashes
           /\ AppliedView' = AppliedView)]_vars

\* C9: every block in levels has the hash of its content, with at least
\* MIN_ZEROS leading zero bits, a height that is not negative, and at least
\* one transaction.
C9_BlocksAreWellFormed ==
    \A n \in ChainNodes(Chain) :
        LET b == objs[n].data
        IN  /\ b.block_hash = compute_hash(b, b.nonce)
            /\ LeadingZeros(bytes_to_bits(b.block_hash), 1) >= MIN_ZEROS
            /\ b.height >= 0
            /\ Len(b.transactions) >= 1

\* C9 happens: a mined block on top of another one is in levels after a
\* block has been turned down
C9_Witness ==
    /\ \E n \in ChainNodes(Chain) : Height(n) = 1 /\ objs[n].data.nonce > 0
    /\ result = "Rejected"

\* C10: in every block of the chain the txn_ids are pairwise different, and
\* none of them is the txn_id of a transaction of a block on the branch of
\* its predecessor.
C10_TxnIdsAreFresh ==
    \A n \in 1..Len(objs) :
        /\ \A p, q \in 1..Len(TxnsOf(n)) :
               p /= q => TxnsOf(n)[p].txn_id /= TxnsOf(n)[q].txn_id
        /\ TxnIdsOf(n) \cap BranchTxnIds(objs[n].prev) = {}

(***************************************************************************)
(* The reorg horizon and the predecessor lookup, on the long chain         *)
(***************************************************************************)
\* valid blocks with a known predecessor: one on top of every block
ForkBlocks == {ForkBlock(n) : n \in ChainNodes(Chain)}

\* well-formed blocks whose prev_hash is not the hash of a block one level
\* below their height
OrphanBlocks == UNION {{OrphanBlock(ph, h) : ph \in StrangeHashes(h)} : h \in DeepHeights}

\* some block of level block.height - 1 has the hash block.prev_hash
PredecessorKnown(block) ==
    \E n \in ChainNodes(Chain) :
        /\ objs[n].data.height = block.height - 1
        /\ objs[n].data.block_hash = block.prev_hash

\* C11: a block is refused as too old only if its height is below
\* head.height - MAX_BLOCKS_BEHIND; a valid block with a known predecessor
\* and a height from head.height - MAX_BLOCKS_BEHIND to head.height is
\* Inserted.
C11_HorizonIsInclusive ==
    err = "ok" =>
        \A block \in ForkBlocks :
            /\ too_old(Chain, block) => block.height < Height(head_block) - MAX_BLOCKS_BEHIND
            /\ (/\ block.height >= Height(head_block) - MAX_BLOCKS_BEHIND
                /\ block.height <= Height(head_block))
                   => insert_block(Chain, block).result = "Inserted"

\* C12: a block older than the reorg horizon is Rejected whether or not its
\* predecessor is known, and is never answered with MissingPredecessor.
C12_HorizonBeforePredecessor ==
    err = "ok" =>
        \A block \in ForkBlocks \cup OrphanBlocks :
            block.height < Height(head_block) - MAX_BLOCKS_BEHIND
                => insert_block(Chain, block).result = "Rejected"

\* C13: insert_block answers MissingPredecessor exactly when the block's
\* height is above 0 and no block of level height - 1 has the hash
\* prev_hash, and then it leaves the chain as it was.
C13_MissingPredecessorExactly ==
    err = "ok" =>
        \A block \in ForkBlocks \cup OrphanBlocks \cup {OnHeadBlock, GenesisBlock} :
            LET r == insert_block(Chain, block)
            IN  /\ r.result = "MissingPredecessor"
                       <=> (block.height > 0 /\ ~PredecessorKnown(block))
                /\ r.result = "MissingPredecessor" => r.cs = Chain

\* C13 happens: a call on a chain of several levels was answered with
\* MissingPredecessor, and a block of a known hash on the wrong level is
\* among the blocks that get this answer
C13_Witness ==
    /\ result = "MissingPredecessor"
    /\ Len(levels) >= 3
    /\ \E block \in OrphanBlocks :
           /\ KnownHash(Chain, block.prev_hash)
           /\ block.height <= Len(levels)
           /\ insert_block(Chain, block).result = "MissingPredecessor"


(***************************************************************************)
(* Claims about the miner threads                                          *)
(***************************************************************************)
\* node.py 158-173: the step in which miner m appends a block to BLOCK_QUEUE
Emits(m) ==
    /\ miners[m].pc = "mine"
    /\ miners'[m].pc = "snapshot"
    /\ Len(BLOCK_QUEUE') = Len(BLOCK_QUEUE) + 1

\* the block that this step appended
Emitted == BLOCK_QUEUE'[Len(BLOCK_QUEUE')]

\* chain.verify_block(block) on a chain that does not hold the block yet
verifies(cs, block) ==
    verify_block([cs EXCEPT !.objs = Append(@, BlockChainNode(cs.head_block, block))],
                 Len(cs.objs) + 1).ok

\* insert_block(block) returns True and the block is the head afterwards
becomes_head(cs, block) ==
    LET r == insert_block(cs, block)
    IN  /\ r.result = "Inserted"
        /\ r.cs.objs[r.cs.head_block].data = block

\* a block whose coinbase a miner thread generated
MinedHere(block) ==
    /\ block.transactions /= <<>>
    /\ \E m \in Miners : block.transactions[1] = generate_coinbase_txn(m, block.height)

\* C14: every block that a miner appends to BLOCK_QUEUE passes verify_block
\* on the chain as the miner copied it, and insert_block of it on that chain
\* returns Inserted and makes the block the head
C14_MiningSoundness ==
    [][\A m \in Miners :
           Emits(m) => /\ verifies(miners[m].snap, Emitted)
                       /\ becomes_head(miners[m].snap, Emitted)]_vars

\* a block of a miner with two transfers is the head of CHAIN
C14_Witness ==
    /\ err = "ok"
    /\ MinedHere(objs[head_block].data)
    /\ Len(objs[head_block].data.transactions) = 3

\* C15: once CHAIN_MODIFIED is set, a miner in find_nonce appends no block
\* built on its stale copy to BLOCK_QUEUE
C15_NoBlockForStaleSnapshot ==
    [][\A m \in Miners :
           (CHAIN_MODIFIED /\ miners[m].snap /= Chain) => ~Emits(m)]_vars

\* miner m works on a copy that is no longer the state of CHAIN and has
\* not read the flag as set
Stale(m) ==
    /\ miners[m].pc \in {"accept", "drain", "pass", "mine"}
    /\ miners[m].snap /= Chain

\* C16: for every miner that works on a stale copy the notification of the
\* chain modification is still pending, whatever the other miners did
C16_EveryMinerIsNotified ==
    \A m \in Miners : Stale(m) => CHAIN_MODIFIED

\* C17: a transaction that leaves TXN_QUEUE is then in the pool of every
\* miner, not only of the miner that took it
C17_EveryMinerGetsTxn ==
    [][\A txn \in Range(TXN_QUEUE) \ Range(TXN_QUEUE') :
           \A m \in Miners : txn \in Range(miners'[m].pool)]_vars

\* miner.pending_txns is a coinbase followed by at least one transaction
\* that has inputs
HasTransfer(ms) ==
    LET txns == ms.chain.objs[Pending(ms)].data.transactions
    IN  /\ Len(txns) >= 2
        /\ txns[1].inputs = <<>>
        /\ \A j \in 2..Len(txns) : txns[j].inputs /= <<>>

\* miner m is inside accept_txns
Accepting(m) == miners[m].pc \in {"accept", "drain", "pass"}

\* C18: accept_txns returns True only with a transfer pending behind the
\* coinbase; it returns False only when CHAIN_MODIFIED is set, and when the
\* flag is set at the top of its loop it does not go on to return True
C18_AcceptReturnsTrueWithTransfer ==
    [][\A m \in Miners :
           /\ (Accepting(m) /\ miners'[m].pc = "mine") => HasTransfer(miners'[m])
           /\ (Accepting(m) /\ miners'[m].pc = "accept_reset") => CHAIN_MODIFIED
           /\ (miners[m].pc = "accept" /\ CHAIN_MODIFIED)
                  => miners'[m].pc \in {"accept", "accept_reset"}
           /\ (Accepting(m) /\ ~HasTransfer(miners[m]) /\ ~HasTransfer(miners'[m]))
                  => miners'[m].pc \in {"accept", "drain", "pass", "accept_reset"}]_vars

\* find_nonce has started with the coinbase and one transfer after a timeout
C18_Witness ==
    \E m \in Miners : /\ miners[m].pc = "mine"
                      /\ num_pending_txns(miners[m]) = 2
                      /\ HasTransfer(miners[m])

\* the transactions of the pool that are not marked used, from position i
\* on, in the order in which they were dequeued
RECURSIVE unused_from(_, _)
unused_from(ms, i) ==
    IF i > Len(ms.pool) THEN <<>>
    ELSE IF ms.used[i] THEN unused_from(ms, i + 1)
    ELSE <<ms.pool[i]>> \o unused_from(ms, i + 1)

\* C19: a pass over the pool that does not end at MAX_TXN_COUNT looks at
\* every transaction that is not marked used, in the order of the queue
C19_PassExaminesAllInOrder ==
    \A m \in Miners :
        miners[m].pc = "pass" =>
            LET r == examine(miners[m], 1, <<>>)
            IN  ~r.full => r.looked = unused_from(miners[m], 1)

\* the coins that a transaction consumes
Coins(txn) == {<<txn.inputs[j].txn_id, txn.inputs[j].index>> : j \in 1..Len(txn.inputs)}

\* no two transactions of the list consume the same coin
NoSharedCoin(txns) ==
    \A j, k \in 1..Len(txns) : j /= k => Coins(txns[j]) \cap Coins(txns[k]) = {}

\* miner.pending_txns
PendingTxns(ms) == ms.chain.objs[Pending(ms)].data.transactions

\* a transaction of the pending set consumes a coin that txn consumes
Conflicts(ms, txn) ==
    \E j \in 1..Len(PendingTxns(ms)) :
        /\ PendingTxns(ms)[j] /= txn
        /\ Coins(PendingTxns(ms)[j]) \cap Coins(txn) /= {}

\* C20: no two transactions of a miner's pending set, or of a block in
\* BLOCK_QUEUE, consume the same coin; a transaction that a pass over the
\* pool looks at while a pending transaction consumes one of its coins
\* fails verification and is removed from the pool
C20_NoDoubleSpendInMiner ==
    /\ \A m \in Miners :
           /\ miners[m].chain /= EmptyChain => NoSharedCoin(PendingTxns(miners[m]))
           /\ miners[m].pc = "pass" =>
                  LET r == examine(miners[m], 1, <<>>)
                  IN  /\ NoSharedCoin(PendingTxns(r.ms))
                      /\ \A txn \in Range(r.looked) :
                             Conflicts(r.ms, txn) =>
                                 /\ txn \notin Range(PendingTxns(r.ms))
                                 /\ txn \notin Range(r.ms.pool)
    /\ \A j \in 1..Len(BLOCK_QUEUE) : NoSharedCoin(BLOCK_QUEUE[j].transactions)

\* a pass has added one of two transfers of the same coin to the pending
\* set and has removed the other from the pool
C20_Witness ==
    \E m \in Miners :
        /\ miners[m].chain /= EmptyChain
        /\ {T1, T2} \subseteq Range(deposited)
        /\ Range(TXN_QUEUE) \cap {T1, T2} = {}
        /\ Range(PendingTxns(miners[m])) \cap {T1, T2} /= {}
        /\ Range(miners[m].pool) \cap {T1, T2} = Range(PendingTxns(miners[m])) \cap {T1, T2}
        /\ Cardinality(Range(miners[m].pool) \cap {T1, T2}) = 1

(***************************************************************************)
(* Claims about the maintainer, the wallet and the network plane           *)
(***************************************************************************)
\* a step that leaves BLOCK_QUEUE alone, appends one block at its end, or
\* pops its first block and leaves CHAIN as insert_block of that block does
QueueStep ==
    \/ BLOCK_QUEUE' = BLOCK_QUEUE
    \/ /\ Len(BLOCK_QUEUE') = Len(BLOCK_QUEUE) + 1
       /\ SubSeq(BLOCK_QUEUE', 1, Len(BLOCK_QUEUE)) = BLOCK_QUEUE
       /\ UNCHANGED chainVars
    \/ /\ BLOCK_QUEUE /= <<>>
       /\ BLOCK_QUEUE' = Tail(BLOCK_QUEUE)
       /\ Chain' = insert_block(Chain, Head(BLOCK_QUEUE)).cs

MinerStep ==
    \E m \in Miners :
        \/ Snapshot(m) \/ AcceptCheck(m) \/ AcceptReset(m) \/ Drain(m)
        \/ Pass(m) \/ Attempt(m) \/ MineReset(m)

\* C23: no step of a miner thread changes CHAIN: its head_block, levels,
\* transactions, blocks and the spent flags of their outputs stay as the
\* maintainer left them
C23_MinersLeaveChainAlone ==
    [][MinerStep => UNCHANGED chainVars]_vars

(***************************************************************************)
(* The maintainer step by step, with a miner thread that follows the flag  *)
(***************************************************************************)
\* the blocks that reach BLOCK_QUEUE: a peer's block on the head, with or
\* without a transfer, and blocks with a defect
ArrivingBlocks ==
    {OnHeadBlock,
     MinedBlock(ParentHash(head_block), ChildHeight(head_block),
                <<Coinbase("B", MINING_REWARD, 200 + ChildHeight(head_block)), T1>>)}
    \cup {DefectBlock(ParentHash(head_block), ChildHeight(head_block), defect) :
             defect \in {"hash", "pow", "orphan"}}

\* node.py 270-272
Arrive ==
    /\ err = "ok"
    /\ Len(objs) + Len(BLOCK_QUEUE) < MaxNodeObjs
    /\ \E block \in ArrivingBlocks :
           /\ block \notin Range(BLOCK_QUEUE)
           /\ BLOCK_QUEUE' = Append(BLOCK_QUEUE, block)
    /\ UNCHANGED <<chainVars, TXN_QUEUE, CHAIN_MODIFIED, miners, deposited>>
    /\ UNCHANGED <<planeVars, files, maint>>

\* the first block of BLOCK_QUEUE is inserted into CHAIN under chain_lock
MaintainInsert ==
    /\ BLOCK_QUEUE /= <<>>
    /\ maint = <<>>
    /\ err = "ok"
    /\ \E r \in {insert_block(Chain, Head(BLOCK_QUEUE))} :
           /\ objs' = r.cs.objs
           /\ levels' = r.cs.levels
           /\ transactions' = r.cs.transactions
           /\ max_height' = r.cs.max_height
           /\ head_block' = r.cs.head_block
           /\ err' = r.cs.err
           /\ result' = r.result
           /\ maint' = IF r.cs.err = "ok" /\ r.result = "Inserted"
                       THEN <<"persist", Head(BLOCK_QUEUE)>>
                       ELSE <<>>
    /\ BLOCK_QUEUE' = Tail(BLOCK_QUEUE)
    /\ UNCHANGED <<TXN_QUEUE, CHAIN_MODIFIED, miners, deposited, planeVars, files>>

\* the block that was Inserted is appended to the file of its height
MaintainPersist ==
    /\ maint /= <<>>
    /\ maint[1] = "persist"
    /\ files' = save_block_to_file(files, maint[2])
    /\ maint' = <<"notify", maint[2]>>
    /\ UNCHANGED <<chainVars, TXN_QUEUE, BLOCK_QUEUE, CHAIN_MODIFIED, miners, deposited>>
    /\ UNCHANGED planeVars

\* CHAIN_MODIFIED is raised for it
MaintainNotify ==
    /\ maint /= <<>>
    /\ maint[1] = "notify"
    /\ CHAIN_MODIFIED' = TRUE
    /\ maint' = <<>>
    /\ UNCHANGED <<chainVars, TXN_QUEUE, BLOCK_QUEUE, miners, deposited>>
    /\ UNCHANGED <<planeVars, files>>

NextMaintainer ==
    \/ Arrive
    \/ MaintainInsert
    \/ MaintainPersist
    \/ MaintainNotify
    \/ \E m \in {1} : Snapshot(m)
    \/ \E m \in {1} : AcceptCheck(m)
    \/ \E m \in {1} : AcceptReset(m)
    \/ \E m \in {1} : Drain(m)
    \/ \E m \in {1} : Pass(m)

SpecMaintainer == Init /\ [][NextMaintainer]_vars

\* the block has a line in the file of its height
OnDisk(dir, block) ==
    /\ block.height \in DOMAIN dir
    /\ \E j \in 1..Len(dir[block.height]) : dir[block.height][j] = Block_to_json(block)

\* the block is in the chain object
InMemory(cells, block) == \E n \in 1..Len(cells) : cells[n].data = block

SendAmounts == {40, 60}

\* node.py 54-72: the send command, for an amount of `amounts`
SendOf(amounts) ==
    /\ Len(deposited) < MaxSends
    /\ \E pubkey \in {"B"}, amount \in amounts :
           LET loaded == load_transactions(wallet, chain_transactions(Chain))
               txn == create_txn(loaded, pubkey, amount, 0)
           IN  IF txn = PyNone
               THEN /\ wallet' = [loaded EXCEPT !.printed =
                                      [cmd |-> "send", pubkey |-> pubkey,
                                       amount |-> amount, failed |-> TRUE]]
                    /\ UNCHANGED <<TXN_QUEUE, OUT_QUEUE, deposited>>
               ELSE /\ wallet' = [loaded EXCEPT !.printed =
                                      [cmd |-> "send", pubkey |-> pubkey,
                                       amount |-> amount, failed |-> FALSE]]
                    /\ TXN_QUEUE' = Append(TXN_QUEUE, txn)
                    /\ OUT_QUEUE' = Append(OUT_QUEUE, Transaction_to_message(txn))
                    /\ deposited' = Append(deposited, txn)
    /\ UNCHANGED <<chainVars, BLOCK_QUEUE, CHAIN_MODIFIED, miners, wire, net, files, maint, codec>>

Send == SendOf(SendAmounts)

\* node.py 74-83: the balance command
BalanceCmd ==
    /\ wallet' = [wallet EXCEPT !.printed =
                     [cmd |-> "balance",
                      total |-> get_balance(wallet, chain_transactions(Chain)).total]]
    /\ UNCHANGED <<chainVars, TXN_QUEUE, BLOCK_QUEUE, CHAIN_MODIFIED, miners, deposited>>
    /\ UNCHANGED <<OUT_QUEUE, wire, net, files, maint, codec>>

NextWallet ==
    \/ Send
    \/ BalanceCmd
    \/ \E m \in {1} : Snapshot(m)
    \/ \E m \in {1} : AcceptCheck(m)
    \/ \E m \in {1} : AcceptReset(m)
    \/ \E m \in {1} : Drain(m)
    \/ \E m \in {1} : Pass(m)
    \/ \E m \in {1} : Attempt(m)
    \/ \E m \in {1} : MineReset(m)
    \/ Maintain

SpecWallet == Init /\ [][NextWallet]_vars

\* the step of a send command, and what it loaded and asked for
SendStep == wallet' /= wallet /\ wallet'.printed.cmd = "send"
LoadedWallet == load_transactions(wallet, chain_transactions(Chain))

\* the unspent coins of the wallet in the order of its loaded transactions
RECURSIVE OwnCoinsFrom(_, _)
OwnCoinsFrom(w, t) ==
    IF t > Len(w.transactions) THEN <<>>
    ELSE LET txn == w.transactions[t]
             own == {o \in 1..Len(txn.outputs) :
                        txn.outputs[o].pub_key = w.pub_key /\ ~txn.outputs[o].spent}
             RECURSIVE inOrder(_)
             inOrder(o) == IF o > Len(txn.outputs) THEN <<>>
                           ELSE (IF o \in own
                                 THEN <<[txn_id |-> txn.txn_id, index |-> o - 1,
                                         amount |-> txn.outputs[o].amount]>>
                                 ELSE <<>>) \o inOrder(o + 1)
         IN  inOrder(1) \o OwnCoinsFrom(w, t + 1)

OwnCoins(w) == OwnCoinsFrom(w, 1)

RECURSIVE SumAmounts(_)
SumAmounts(coins) == IF coins = <<>> THEN 0 ELSE Head(coins).amount + SumAmounts(Tail(coins))

\* C24: a send command for more than the wallet's unspent coins hold finds
\* no coins and creates nothing: it fails, the wallet keeps the transactions
\* it loaded and its pending list, and TXN_QUEUE and OUT_QUEUE stay as
\* they are
C24_InsufficientFundsNoEffect ==
    [][(SendStep /\ SumAmounts(OwnCoins(LoadedWallet)) < wallet'.printed.amount)
          => /\ find_coins(LoadedWallet, wallet'.printed.amount) = <<>>
             /\ create_txn(LoadedWallet, wallet'.printed.pubkey, wallet'.printed.amount, 0) = PyNone
             /\ wallet'.printed.failed
             /\ wallet'.transactions = LoadedWallet.transactions
             /\ wallet'.pending = wallet.pending
             /\ UNCHANGED <<TXN_QUEUE, OUT_QUEUE>>]_vars

\* the wallet holds a coin and a send command for more than it has failed
C24_Witness ==
    /\ wallet.printed.cmd = "send"
    /\ wallet.printed.failed
    /\ OwnCoins(wallet) /= <<>>
    /\ SumAmounts(OwnCoins(wallet)) < wallet.printed.amount
    /\ Len(objs) > 1

\* the length of the shortest prefix of the coins whose sum reaches amount
ShortestPrefix(coins, amount) ==
    CHOOSE k \in 1..Len(coins) :
        /\ SumAmounts(SubSeq(coins, 1, k)) >= amount
        /\ \A l \in 1..(k - 1) : SumAmounts(SubSeq(coins, 1, l)) < amount

\* C25: a send command that the wallet's unspent coins cover queues a
\* transaction whose inputs are the shortest prefix of those coins, in
\* loaded order, that reaches the amount, whose first output pays the
\* amount to the destination and whose second output, present exactly when
\* the coins exceed the amount, pays the rest to the wallet; inputs and
\* outputs add up to the same and no coin is named twice
C25_TransferFromShortestPrefix ==
    [][(SendStep /\ SumAmounts(OwnCoins(LoadedWallet)) >= wallet'.printed.amount)
          => LET amount == wallet'.printed.amount
                 coins == OwnCoins(LoadedWallet)
                 k == ShortestPrefix(coins, amount)
                 sum == SumAmounts(SubSeq(coins, 1, k))
                 txn == create_txn(LoadedWallet, wallet'.printed.pubkey, amount, 0)
             IN  /\ ~wallet'.printed.failed
                 /\ TXN_QUEUE' = Append(TXN_QUEUE, txn)
                 /\ txn.inputs = [j \in 1..k |-> TxnInput(coins[j].txn_id, coins[j].index)]
                 /\ txn.outputs[1].pub_key = wallet'.printed.pubkey
                 /\ txn.outputs[1].amount = amount
                 /\ Len(txn.outputs) = IF sum - amount > 0 THEN 2 ELSE 1
                 /\ Len(txn.outputs) = 2
                       => /\ txn.outputs[2].pub_key = wallet.pub_key
                          /\ txn.outputs[2].amount = sum - amount
                 /\ sum = sum_outputs(txn.outputs, 1)
                 /\ \A i, j \in 1..Len(txn.inputs) : txn.inputs[i] = txn.inputs[j] => i = j]_vars

\* two transfers were sent: the first with change, the second from two
\* coins without change
C25_Witness ==
    /\ Len(deposited) = 2
    /\ Len(deposited[1].inputs) = 1
    /\ Len(deposited[1].outputs) = 2
    /\ Len(deposited[2].inputs) = 2
    /\ Len(deposited[2].outputs) = 1

\* the outputs paying pub_key among the applied transactions that no input
\* of a transaction on the branch of the head names
UnspentOnHeadBranch(pub_key) ==
    {ref \in UNION {{<<transactions[j].obj, o>> :
                        o \in 1..Len(TxnOf(Chain, transactions[j].obj).outputs)} :
                            j \in 1..Len(transactions)} :
        /\ TxnOf(Chain, ref[1]).outputs[ref[2]].pub_key = pub_key
        /\ ~\E i \in 1..Len(PathTo(head_block)) :
              \E p \in 1..Len(TxnsOf(PathTo(head_block)[i])) :
                 \E a \in 1..Len(TxnsOf(PathTo(head_block)[i])[p].inputs) :
                    LET txn_in == TxnsOf(PathTo(head_block)[i])[p].inputs[a]
                    IN  /\ txn_in.txn_id = TxnOf(Chain, ref[1]).txn_id
                        /\ PyIndex(Len(TxnOf(Chain, ref[1]).outputs), txn_in.index) = ref[2]}

RECURSIVE SumOutputs(_)
SumOutputs(refs) ==
    IF refs = {} THEN 0
    ELSE LET x == CHOOSE y \in refs : TRUE
         IN  TxnOf(Chain, x[1]).outputs[x[2]].amount + SumOutputs(refs \ {x})

BalanceOf(pub_key) ==
    get_balance([WalletStart EXCEPT !.pub_key = pub_key], chain_transactions(Chain)).total

\* C26: the total of get_balance on a snapshot of CHAIN is the sum of the
\* outputs of its transactions that pay the wallet's key and are unspent on
\* the branch of the head; on the genesis block alone A has 50 and B has 0,
\* and once A's block with A's transfer of 40 to B is the head, A has 60
\* and B has 40
C26_BalanceIsUnspentOnHead ==
    err = "ok" =>
        /\ \A pub_key \in Keys : BalanceOf(pub_key) = SumOutputs(UnspentOnHeadBranch(pub_key))
        /\ Len(PathTo(head_block)) = 1 => BalanceOf("A") = 50 /\ BalanceOf("B") = 0
        /\ (/\ Len(PathTo(head_block)) = 2
            /\ MinedHere(objs[head_block].data)
            /\ Len(TxnsOf(head_block)) = 2
            /\ TxnsOf(head_block)[2] = T1)
           => BalanceOf("A") = 60 /\ BalanceOf("B") = 40

\* A's block with A's transfer of 40 to B is the head and the balance
\* command has printed 60
C26_Witness ==
    /\ Len(PathTo(head_block)) = 2
    /\ MinedHere(objs[head_block].data)
    /\ TxnsOf(head_block)[2] = T1
    /\ wallet.printed = [cmd |-> "balance", total |-> 60]

(***************************************************************************)
(* The network thread: run_network reads the frames of the peers and       *)
(* hands them to handle_request, then sends what OUT_QUEUE holds           *)
(***************************************************************************)
\* a frame whose text json.loads refuses: rec_json raises ValueError
\* (network_util.py 117-120)
NotJson == [notjson |-> TRUE]

\* the dict without one of its keys
Without(d, key) == [f \in DOMAIN d \ {key} |-> d[f]]

\* node.py 259-265: what is written to the socket of a peer for one
\* message of OUT_QUEUE
handle_out_request(out_req) ==
    IF "type" \in DOMAIN out_req /\ out_req.type \in {"block", "transaction"}
    THEN <<IF "data" \in DOMAIN out_req THEN out_req.data ELSE PyNone>>
    ELSE <<>>

\* node.py 250-254: the speak phase sends every message of OUT_QUEUE
RECURSIVE speak(_)
speak(out_queue) ==
    IF out_queue = <<>> THEN <<>>
    ELSE handle_out_request(Head(out_queue)) \o speak(Tail(out_queue))

\* the queues as handle_request finds them; `raised` is the exception that
\* escapes it
Queues(block_queue, txn_queue) ==
    [BLOCK_QUEUE |-> block_queue, TXN_QUEUE |-> txn_queue, raised |-> "none"]

\* node.py 268-281; from_json of a missing "data" is from_json(None), whose
\* json_data.get raises AttributeError (block.py 25, transaction.py 83)
handle_request(req, queues) ==
    IF "type" \in DOMAIN req /\ req.type = "block"
    THEN IF "data" \notin DOMAIN req
         THEN [queues EXCEPT !.raised = "AttributeError"]
         ELSE [queues EXCEPT !.BLOCK_QUEUE = Append(@, Block_from_json(req.data))]
    ELSE IF "type" \in DOMAIN req /\ req.type = "transaction"
    THEN IF "data" \notin DOMAIN req
         THEN [queues EXCEPT !.raised = "AttributeError"]
         ELSE [queues EXCEPT !.TXN_QUEUE = Append(@, Transaction_from_json(req.data))]
    ELSE queues

\* the frames the peers send: a block on top of the head and a transfer
\* as full messages and as a peer running node.py sends them, and frames
\* that are not JSON, that have no type or an unknown one, that have no
\* data, and whose data lacks a field, at the top or inside an output
LacksAmount(txn) ==
    [Transaction_to_json(txn) EXCEPT !.outputs[1] = Without(@, "amount")]

WellFormedFrames(block) ==
    {Block_to_message(block), Transaction_to_message(T1)}

MalformedFrames(block) ==
    {NotJson,
     [data |-> Transaction_to_json(T1)],
     [type |-> "hello", data |-> Transaction_to_json(T1)],
     [type |-> "block"],
     [type |-> "transaction"],
     [type |-> "block", data |-> Without(Block_to_json(block), "nonce")],
     [type |-> "transaction", data |-> Without(Transaction_to_json(T1), "outputs")],
     [type |-> "transaction", data |-> LacksAmount(T1)]}
    \cup {speak(<<frame>>)[1] : frame \in WellFormedFrames(block)}

PeerFrames(block) == WellFormedFrames(block) \cup MalformedFrames(block)

\* node.py 233-246: one frame is read and handled; ValueError is caught,
\* any other exception ends the thread
ReceiveFrame(frame) ==
    /\ net = "up"
    /\ err = "ok"
    /\ Len(objs) + Len(BLOCK_QUEUE) < MaxNodeObjs
    /\ Len(deposited) < MaxNodeDeposits
    /\ IF frame = NotJson
       THEN UNCHANGED <<BLOCK_QUEUE, TXN_QUEUE, net, deposited>>
       ELSE \E r \in {handle_request(frame, Queues(BLOCK_QUEUE, TXN_QUEUE))} :
                /\ BLOCK_QUEUE' = r.BLOCK_QUEUE
                /\ TXN_QUEUE' = r.TXN_QUEUE
                /\ net' = IF r.raised = "none" THEN "up" ELSE "raised"
                /\ deposited' = deposited \o SubSeq(r.TXN_QUEUE, Len(TXN_QUEUE) + 1,
                                                    Len(r.TXN_QUEUE))
    /\ UNCHANGED <<chainVars, CHAIN_MODIFIED, miners, OUT_QUEUE, wire, wallet, files, maint, codec>>

Receive == \E block \in {OnHeadBlock} : \E frame \in PeerFrames(block) : ReceiveFrame(frame)

\* node.py 248-254: the speak phase, under out_queue_lock
Egress ==
    /\ net = "up"
    /\ OUT_QUEUE /= <<>>
    /\ wire' = wire \o speak(OUT_QUEUE)
    /\ OUT_QUEUE' = <<>>
    /\ UNCHANGED <<chainVars, TXN_QUEUE, BLOCK_QUEUE, CHAIN_MODIFIED, miners, deposited>>
    /\ UNCHANGED <<net, wallet, files, maint, codec>>

\* the maintainer pops a None: insert_block(None) raises AttributeError
\* (chain.py 100), which ends the thread
MaintainNone ==
    /\ BLOCK_QUEUE /= <<>>
    /\ Head(BLOCK_QUEUE) = PyNone
    /\ maint = <<>>
    /\ err = "ok"
    /\ BLOCK_QUEUE' = Tail(BLOCK_QUEUE)
    /\ maint' = <<"raised">>
    /\ UNCHANGED <<chainVars, TXN_QUEUE, CHAIN_MODIFIED, miners, deposited, planeVars, files>>

NextNet ==
    \/ Receive
    \/ Egress
    \/ Send
    \/ \E m \in {1} : Snapshot(m)
    \/ \E m \in {1} : AcceptCheck(m)
    \/ \E m \in {1} : AcceptReset(m)
    \/ \E m \in {1} : Drain(m)
    \/ \E m \in {1} : Pass(m)
    \/ \E m \in {1} : Attempt(m)
    \/ \E m \in {1} : MineReset(m)
    \/ Maintain
    \/ MaintainNone

SpecNet == Init /\ [][NextNet]_vars

\* C27: a malformed frame of a peer is dropped: handling it leaves
\* BLOCK_QUEUE and TXN_QUEUE as they are, and neither a miner emptying
\* TXN_QUEUE nor the maintainer popping BLOCK_QUEUE takes a None out
C27_MalformedIsDropped ==
    [][/\ \A frame \in MalformedFrames(OnHeadBlock) :
              ReceiveFrame(frame) => UNCHANGED <<BLOCK_QUEUE, TXN_QUEUE>>
       /\ (TXN_QUEUE /= <<>> /\ TXN_QUEUE' = <<>>) => PyNone \notin Range(TXN_QUEUE)
       /\ (BLOCK_QUEUE /= <<>> /\ BLOCK_QUEUE' = Tail(BLOCK_QUEUE))
             => Head(BLOCK_QUEUE) /= PyNone]_vars

\* C28: the speak phase writes every message of OUT_QUEUE to the peer as
\* the whole message with its type and its data, so that handle_request
\* at the peer puts the decoded block into its BLOCK_QUEUE and the decoded
\* transaction into its TXN_QUEUE
C28_FullMessageReachesPeer ==
    [][(net = "up" /\ OUT_QUEUE /= <<>> /\ OUT_QUEUE' = <<>>)
          => /\ wire' = wire \o OUT_QUEUE
             /\ \A j \in 1..Len(OUT_QUEUE) :
                   LET out_req == OUT_QUEUE[j]
                       r == handle_request(wire'[Len(wire) + j], Queues(<<>>, <<>>))
                   IN  /\ out_req.type = "block"
                             => /\ r.BLOCK_QUEUE = <<Block_from_json(out_req.data)>>
                                /\ r.BLOCK_QUEUE[1] /= PyNone
                       /\ out_req.type = "transaction"
                             => /\ r.TXN_QUEUE = <<Transaction_from_json(out_req.data)>>
                                /\ r.TXN_QUEUE[1] /= PyNone]_vars

(***************************************************************************)
(* Serialization: an object is written with to_json and read back with     *)
(* from_json                                                               *)
(***************************************************************************)
\* a transaction as its constructor leaves it: no output is signed
\* (transaction.py 43-49) and txn_id is None (transaction.py 74-77)
Unsigned(txn) ==
    [txn EXCEPT !.outputs = [j \in 1..Len(@) |-> [@[j] EXCEPT !.signature = NoSignature]]]

Unnamed(txn) == [txn EXCEPT !.txn_id = NoTxnId]

\* the transaction with amounts and input indexes of 0
Zeroed(txn) ==
    [txn EXCEPT !.outputs = [j \in 1..Len(@) |-> [@[j] EXCEPT !.amount = 0]],
                !.inputs = [j \in 1..Len(@) |-> [@[j] EXCEPT !.index = 0]]]

Variants(txn) ==
    {f[3] : f \in {<<a, b, IF a THEN (IF b THEN Unsigned(Unnamed(txn)) ELSE Unsigned(txn))
                           ELSE (IF b THEN Unnamed(txn) ELSE txn)>> :
                      a \in BOOLEAN, b \in BOOLEAN}}

\* the transactions that are written and read back: a coinbase and
\* transfers with one and two inputs and outputs, signed and with a txn_id
\* or as constructed, with their amounts or with 0
CodecTxns ==
    UNION {Variants(txn) \cup Variants(Zeroed(txn)) :
              txn \in {GenesisBlock.transactions[1], T1, T3, T4}}

\* the blocks: the genesis block (height 0) and a mined block, with their
\* nonce and with nonce 0, holding the transactions above
CodecBlocks ==
    UNION {{[block EXCEPT !.transactions = txns],
            [block EXCEPT !.transactions = txns, !.nonce = 0]} :
              block \in {GenesisBlock, OnHeadBlock},
              txns \in {<<>>} \cup {<<txn>> : txn \in CodecTxns}
                              \cup {<<T1, T3>>, <<Unsigned(T1), Unnamed(T3)>>}}

CodecInputs ==
    {[stage |-> "object", kind |-> "transaction", x |-> txn] : txn \in CodecTxns}
    \cup {[stage |-> "object", kind |-> "block", x |-> block] : block \in CodecBlocks}

InitCodec ==
    /\ InitNode
    /\ codec \in CodecInputs

\* transaction.py 94-99 and 80-92
TransactionToJson ==
    /\ codec.stage = "object"
    /\ codec.kind = "transaction"
    /\ codec' = [stage |-> "json", kind |-> codec.kind, x |-> codec.x,
                 json |-> Transaction_to_json(codec.x)]
    /\ UNCHANGED <<chainVars, TXN_QUEUE, BLOCK_QUEUE, CHAIN_MODIFIED, miners, deposited>>
    /\ UNCHANGED <<OUT_QUEUE, wire, net, wallet, files, maint>>

TransactionFromJson ==
    /\ codec.stage = "json"
    /\ codec.kind = "transaction"
    /\ codec' = [stage |-> "back", kind |-> codec.kind, x |-> codec.x,
                 json |-> codec.json, back |-> Transaction_from_json(codec.json)]
    /\ UNCHANGED <<chainVars, TXN_QUEUE, BLOCK_QUEUE, CHAIN_MODIFIED, miners, deposited>>
    /\ UNCHANGED <<OUT_QUEUE, wire, net, wallet, files, maint>>

\* block.py 42-49 and 22-40
BlockToJson ==
    /\ codec.stage = "object"
    /\ codec.kind = "block"
    /\ codec' = [stage |-> "json", kind |-> codec.kind, x |-> codec.x,
                 json |-> Block_to_json(codec.x)]
    /\ UNCHANGED <<chainVars, TXN_QUEUE, BLOCK_QUEUE, CHAIN_MODIFIED, miners, deposited>>
    /\ UNCHANGED <<OUT_QUEUE, wire, net, wallet, files, maint>>

BlockFromJson ==
    /\ codec.stage = "json"
    /\ codec.kind = "block"
    /\ codec' = [stage |-> "back", kind |-> codec.kind, x |-> codec.x,
                 json |-> codec.json, back |-> Block_from_json(codec.json)]
    /\ UNCHANGED <<chainVars, TXN_QUEUE, BLOCK_QUEUE, CHAIN_MODIFIED, miners, deposited>>
    /\ UNCHANGED <<OUT_QUEUE, wire, net, wallet, files, maint>>

NextCodec ==
    \/ TransactionToJson
    \/ TransactionFromJson
    \/ BlockToJson
    \/ BlockFromJson

SpecCodec == InitCodec /\ [][NextCodec]_vars

\* to_json of what was read back
ToJsonAgain ==
    IF codec.kind = "block" THEN Block_to_json(codec.back)
    ELSE Transaction_to_json(codec.back)

\* C29: what from_json makes of the JSON of a block or of a transaction is
\* equal to the object, field by field, and has the same JSON; this holds
\* too for outputs without a signature and for values of 0
C29_RoundTrip ==
    codec.stage = "back"
        => /\ codec.back = codec.x
           /\ ToJsonAgain = codec.json

(***************************************************************************)
(* A node whose second miner was constructed with Strategy.INCREMENT       *)
(***************************************************************************)
InitIncrement ==
    /\ InitNodeWith([m \in Miners |-> IF m = 2 THEN "INCREMENT" ELSE "RANDOM"])
    /\ codec = NoCodec

SpecIncrement == InitIncrement /\ [][NextNode]_vars

\* C30: with INCREMENT the search starts at nonce 0 and counts upward,
\* and find_nonce ends only with a block put into BLOCK_QUEUE or with
\* CHAIN_MODIFIED set, not because next_nonce returned 0
C30_SearchEndsOnlyOnResult ==
    [][\A m \in Miners :
          (miners[m].strategy = "INCREMENT" /\ miners[m].pc = "mine")
             => /\ miners'[m].pc = "mine"
                      => miners'[m].i \in {miners[m].i, miners[m].i + 1}
                /\ miners'[m].pc /= "mine"
                      => \/ Len(BLOCK_QUEUE') = Len(BLOCK_QUEUE) + 1
                         \/ CHAIN_MODIFIED /\ miners'[m].pc = "mine_reset"]_vars

(***************************************************************************)
(* The shape of the transactions in the chain                              *)
(***************************************************************************)
\* C31: every transaction of a block in the chain has at least one output
C31_AcceptedHasOutputs ==
    \A n \in ChainNodes(Chain) :
        \A p \in 1..Len(objs[n].data.transactions) :
            Len(objs[n].data.transactions[p].outputs) >= 1

(***************************************************************************)
(* What a call of insert_block leaves behind                               *)
(***************************************************************************)
\* C32: a call of insert_block that returns Rejected leaves head_block,
\* max_height, the levels with their nodes, the `transactions` map and the
\* spent flag of every coin as they were before the call
C32_RejectedLeavesChain ==
    [][result' = "Rejected"
          => /\ head_block' = head_block
             /\ max_height' = max_height
             /\ levels' = levels
             /\ AppliedView' = AppliedView
             /\ \A n \in 1..Len(objs) : objs'[n].spent = objs[n].spent]_vars

\* the nodes a chain that receives the blocks below grows to
MaxVerifyNodes == 3

\* what follows the coinbase in the blocks that arrive: transfers that are
\* valid on some branches and on others not, a transfer twice, and a
\* transfer that names one coin twice
VerifySuffixes ==
    << <<>>, <<T1>>, <<T2>>, <<T1, T3>>, <<T3>>, <<T1, T1>>, <<TSameCoinTwice>> >>

VerifyBlock(n, i) ==
    MinedBlock(ParentHash(n), ChildHeight(n),
        <<Coinbase("B", MINING_REWARD, Len(VerifySuffixes) * ChildHeight(n) + i)>>
            \o VerifySuffixes[i])

\* the blocks that can arrive next
Arrivals == {VerifyBlock(n, i) : n \in ChainNodes(Chain), i \in 1..Len(VerifySuffixes)}

\* a correctly mined block arrives on top of a block of the chain
DeliverVerify ==
    \E n \in ChainNodes(Chain), i \in 1..Len(VerifySuffixes) :
        Call(VerifyBlock(n, i), MaxVerifyNodes)

NextVerify == DeliverVerify

SpecVerify == Init /\ [][NextVerify]_vars

\* the chain on which insert_block_node calls verify_block for `block`
\* (chain.py 122-128), and the outcome of the transaction loop and of the
\* call (chain.py 130)
VerifyCall(block) ==
    LET prev == previous_block_node(Chain, block)
        n == Len(objs) + 1
        c0 == [Chain EXCEPT !.objs = Append(@, BlockChainNode(prev, block)),
                            !.levels = extend_levels(@, block.height - Len(@) + 1)]
        c1 == move_head(c0, c0.head_block, prev)
    IN  [moved |-> c1.transactions /= c0.transactions,
         before |-> c1,
         loop |-> verify_txns(c1, n, 1),
         after |-> verify_block(c1, n)]

\* C33: when verify_block returns, with either answer, the chain is as the
\* call found it: the `transactions` map and the spent flag of every coin
\* have the values they had before the call
C33_VerifyBlockRestores ==
    err = "ok" =>
        \A block \in Arrivals :
            \E call \in {VerifyCall(block)} : call.after.cs = call.before

\* C33 happens: a block was rejected, and among the blocks verify_block is
\* called for there is one that it rejects after applying a transaction,
\* on a chain moved to another branch, and one that it accepts after
\* applying a transfer
C33_Witness ==
    /\ err = "ok"
    /\ result = "Rejected"
    /\ \E block \in Arrivals :
           \E call \in {VerifyCall(block)} :
               call.moved /\ ~call.after.ok /\ call.loop.applied >= 1
    /\ \E block \in Arrivals :
           \E call \in {VerifyCall(block)} : call.after.ok /\ call.loop.applied >= 2

\* the node a call has added to the chain, 0 if it added none
Added == IF Len(objs') = Len(objs) + 1 THEN Len(objs') ELSE 0

\* C34: a call that inserts a block of a height below max_height returns
\* Inserted with the node in its level, and head_block, max_height, the
\* `transactions` map and the spent flags of the coins of the head's branch
\* are as before the call
C34_SideBlockKeepsHead ==
    [][(/\ err = "ok"
        /\ Added /= 0
        /\ objs'[Added].data.height < max_height)
       => (/\ result' = "Inserted"
           /\ Added \in levels'[objs'[Added].data.height + 1]
           /\ head_block' = head_block
           /\ max_height' = max_height
           /\ AppliedView' = AppliedView
           /\ \A n \in 1..Len(objs) : OnPath(n, head_block)
                  => objs'[n].spent = objs[n].spent)]_vars

\* C35: no call of insert_block ends in an exception: every move_head meets
\* at a block of the chain without stepping from a block of height 0 to
\* None (AttributeError), its reverts find their transactions (KeyError),
\* and the assertions of move_head and of apply_transaction hold
\* (AssertionError)
C35_MoveHeadMeets == err = "ok"

C37_OneGenesis ==
    /\ levels[1] = {1}
    /\ \A n \in 2..Len(objs) :
           Height(n) = 0
               => /\ head_block /= n
                  /\ \A j \in 1..Len(transactions) : transactions[j].obj[1] /= n

(***************************************************************************)
(* The pool of a miner that gives up its block                             *)
(***************************************************************************)
\* C38: when accept_txns or find_nonce returns False because CHAIN_MODIFIED
\* was set, no transaction of the miner's pool is marked used
C38_AbandonUnmarksPool ==
    [][\A m \in Miners :
          (/\ miners[m].pc \in {"accept_reset", "mine_reset"}
           /\ miners'[m].pc = "snapshot")
             => \A i \in 1..Len(miners'[m].pool) : ~miners'[m].used[i]]_vars

(***************************************************************************)
(* The send command for any integer amount                                 *)
(***************************************************************************)
\* int(args[2]) of a send command: a negative amount, zero, less than the
\* first coin and more than it
AnyAmounts == {-5, 0, 40, 60}

SendAny == SendOf(AnyAmounts)

NextSend ==
    \/ SendAny
    \/ \E m \in {1} : Snapshot(m)
    \/ \E m \in {1} : AcceptCheck(m)
    \/ \E m \in {1} : AcceptReset(m)
    \/ \E m \in {1} : Drain(m)
    \/ \E m \in {1} : Pass(m)
    \/ \E m \in {1} : Attempt(m)
    \/ \E m \in {1} : MineReset(m)
    \/ Maintain

SpecSend == Init /\ [][NextSend]_vars

\* C39: the transaction a send command creates from the coins it loaded
\* from CHAIN passes verify_transaction on CHAIN as it was copied
C39_CreatedTxnVerifies ==
    [][(SendStep /\ ~wallet'.printed.failed)
          => verify_transaction(Chain, TXN_QUEUE'[Len(TXN_QUEUE')], FALSE)]_vars

====
